---- MODULE Spec2Model ----
(***************************************************************************)
(* A model of lnpbp_testkit.network.Network: the auto-miner                *)
(* (start_auto_mining / stop_auto_mining / _run_auto_miner), mine_blocks,  *)
(* the liquidity engine (_prepare_channel / _open_channel and the          *)
(* chain-payment path it funds the source node through), payment links,    *)
(* warm_up and load_scenario; and of lightning.P2PAddr and ports.allocate. *)
(*                                                                         *)
(* Spec          the auto-miner interface and mine_blocks, called by the   *)
(*               test (the foreground flow), with transactions arriving in *)
(*               the mempool.                                              *)
(* LiquiditySpec _prepare_channel, step by step, against a Lightning node  *)
(*               whose channels activate on their own.                     *)
(* ParseSpec     _parse_link applied to one payment link.                  *)
(* NetworkSpec   auto_pay, create_ln_invoice, warm_up and load_scenario,   *)
(*               step by step, with the node processes they start and the  *)
(*               liquidity engine they call.                               *)
(* AddrSpec      lightning.P2PAddr: serialize and parse of one address.    *)
(* PortSpec      ports.allocate, step by step, called by processes that    *)
(*               share the state directory.                                *)
(* RegistrySpec  load_scenario called on one of several Network objects.   *)
(***************************************************************************)
EXTENDS Integers, Sequences, FiniteSets, TLC

VARIABLES
    \* ---- Network: auto-miner fields (network.py:149-152)
    auto_miner_running,
    auto_miner_confirm_tx_block_count,
    auto_miner_polling_interval,
    auto_miner_thread,
    \* ---- the threading.Thread objects constructed so far, by identity
    threads,
    \* ---- the chain-control daemon (bitcoind), as the RPCs used observe it
    wallets,
    height,
    mempool,
    balance,
    sent,
    \* ---- Network: node fields (network.py:145-148)
    secondary_node,
    ln_nodes_by_pubkey,
    \* ---- the Lightning nodes: the class they are instances of, and the
    \*      channels each one reports
    impl,
    channels,
    \* ---- the frame of the _prepare_channel / _open_channel call in progress
    pc,
    source,
    dest,
    amount_sat,
    open_amount_sat,
    last_spendable,
    \* ---- the payment link given to auto_pay / _parse_link, and the payment
    \*      intent in progress (a ChainPayment or a LightningPayment)
    link,
    payment,
    \* ---- Network: the registry of named nodes (network.py:147)
    ln_nodes_by_name,
    \* ---- the Lightning node processes: those created and launched (and by
    \*      what), those synchronised with the chain, those wait_init has
    \*      returned for, and the number of node objects constructed
    launched,
    synced,
    initialized,
    objects,
    \* ---- the frame of the load_scenario call in progress, and the channel
    \*      policies given to the nodes
    scenario,
    idx,
    policies,
    \* ---- the invoice of the LightningPayment in progress, and the invoices
    \*      the nodes were told to pay
    invoice,
    paid,
    \* ---- a P2PAddr object, the text it was serialized to, and the object
    \*      parsed from the text
    p2p_addr,
    p2p_text,
    p2p_parsed,
    \* ---- port allocation: the files of the state directory (their content,
    \*      and who holds the flock of each), the files the paths `ports` and
    \*      `ports.tmp` name, the allocate call of each process, and the
    \*      ranges allocate has returned
    state_path,
    tmp_state_path,
    files,
    flock,
    procs,
    allocated,
    \* ---- the number of Network objects constructed
    networks,
    \* ---- the calls made on the Network, with their outcome
    calls

amVars == <<auto_miner_running, auto_miner_confirm_tx_block_count,
            auto_miner_polling_interval, auto_miner_thread>>
chainVars == <<wallets, height, mempool, balance, sent>>
nodeVars == <<secondary_node, ln_nodes_by_pubkey, impl>>
frameVars == <<pc, source, dest, amount_sat, open_amount_sat, last_spendable,
               payment>>
procVars == <<launched, synced, initialized, objects>>
scenarioVars == <<scenario, idx, ln_nodes_by_name, policies>>
lnVars == <<invoice, paid>>
netVars == <<link, procVars, scenarioVars, lnVars>>
addrVars == <<p2p_addr, p2p_text, p2p_parsed>>
portVars == <<state_path, tmp_state_path, files, flock, procs, allocated>>
utilVars == <<addrVars, portVars, networks>>

\* ------------------------------------------------------------------ bounds

\* Calls the test makes in one run.
MaxCalls == 3
\* Transactions waiting in the mempool.
MaxMempool == 2
\* Chain height up to which blocks are generated.
MaxHeight == 6

\* Arguments the test passes.
PollingIntervals == {0, 1, 3}
ConfirmCounts == {1, 6}
MineCounts == {-1, 0, 1, 2}

\* _prepare_channel calls in one run.
MaxPrepareCalls == 2
\* Chain height up to which _prepare_chain_coins mines 101-block batches.
MaxFundHeight == 330
\* The fee the wallet pays for one sendtoaddress, in satoshis.
SendFee == 1000
\* The coinbase value maturing in the wallet with one 101-block batch, in
\* satoshis: none, or one block's subsidy after seven halvings.  (What matures
\* with other mine_blocks calls, _prepare_blocks included, is left out: only
\* _prepare_chain_coins reads the balance, and it mines batches until the
\* balance suffices.)
Rewards == {0, 39062500}
\* amount_sat of the _prepare_channel calls: around the capacity floor
\* (2 * amount_sat = 20000) and the capacity ceiling (2 * amount_sat = 2^24),
\* and the first amount above the ceiling itself.
AmountSats == {0, 1, 10000, 8388607, 8388608, 16777216}

None == 0

\* ------------------------------------------------------------- threading

\* A Thread object right after threading.Thread(target = ...): constructed,
\* never started.  Network never calls start() on it.
NewThread == "initial"

\* Thread.join(): a thread that was never started cannot be joined
\* (RuntimeError); a started thread is waited for; a finished one returns.
JoinOutcome(t) ==
    CASE threads[t] = "initial"  -> "RuntimeError"
      [] threads[t] = "started"  -> "blocked"
      [] threads[t] = "finished" -> "ok"

\* The Thread objects that exist and have not finished.
Workers == {t \in 1..Len(threads) : threads[t] # "finished"}

\* ---------------------------------------------------------- chain control

\* Network._prepare_wallet: create the wallet when the daemon lists none.
prepare_wallet == IF wallets = 0 THEN 1 ELSE wallets

\* Network.mine_blocks(count).  fail1, fail2: whether the first and the
\* second getnewaddress call fail; reward: the coinbase value that matures
\* in the wallet with these blocks.
mine_blocks_outcome(count, fail1, fail2) ==
    IF count < 1 THEN "Exception"
    ELSE IF fail1 /\ fail2 THEN "RpcError"
    ELSE "ok"

\* Mutant of mine_blocks: the wallet is prepared ahead of the count test.
mine_blocks_wallet_first(count, fail1, fail2, reward) ==
    /\ wallets' = prepare_wallet
    /\ IF count < 1 \/ (fail1 /\ fail2)
       THEN UNCHANGED <<height, mempool, balance>>
       ELSE /\ height' = height + count
            /\ mempool' = 0
            /\ balance' = balance + reward
    /\ UNCHANGED sent

mine_blocks(count, fail1, fail2, reward) ==
    IF count < 1
    THEN UNCHANGED chainVars
    ELSE /\ wallets' = prepare_wallet
         /\ IF fail1 /\ fail2
            THEN UNCHANGED <<height, mempool, balance>>
            ELSE /\ height' = height + count
                 /\ mempool' = 0
                 /\ balance' = balance + reward
         /\ UNCHANGED sent

\* ------------------------------------------------------------- auto-miner

Call(op, args, result) == [op |-> op, args |-> args, result |-> result]

\* Mutant of already_running: the check is left out.
already_running_unchecked == FALSE

\* The guard of start_auto_mining: the flag is set or a Thread is held.
already_running == auto_miner_running \/ auto_miner_thread # None

\* Network.start_auto_mining(polling_interval_seconds, confirm_tx_block_count).
\* ctor_fails: the Thread constructor raises.  The result recorded is "ok" or
\* the error raised: NameError (the message of the polling-interval check is
\* formatted with the undefined name `count`), AlreadyRunning, ThreadError.
start_auto_mining(polling_interval_seconds, confirm_tx_block_count, ctor_fails) ==
    LET args == <<polling_interval_seconds, confirm_tx_block_count>> IN
    IF polling_interval_seconds < 1
    THEN /\ calls' = Append(calls, Call("start_auto_mining", args, "NameError"))
         /\ UNCHANGED <<amVars, threads>>
    ELSE IF already_running
    THEN /\ calls' = Append(calls, Call("start_auto_mining", args, "AlreadyRunning"))
         /\ UNCHANGED <<amVars, threads>>
    ELSE /\ auto_miner_confirm_tx_block_count' = confirm_tx_block_count
         /\ auto_miner_polling_interval' = confirm_tx_block_count
         /\ IF ctor_fails
            THEN /\ auto_miner_running' = FALSE
                 /\ UNCHANGED <<auto_miner_thread, threads>>
                 /\ calls' = Append(calls, Call("start_auto_mining", args, "ThreadError"))
            ELSE /\ auto_miner_running' = TRUE
                 /\ threads' = Append(threads, NewThread)
                 /\ auto_miner_thread' = Len(threads) + 1
                 /\ calls' = Append(calls, Call("start_auto_mining", args, "ok"))

StartAutoMining ==
    /\ Len(calls) < MaxCalls
    /\ \E p \in PollingIntervals, c \in ConfirmCounts, ctor_fails \in BOOLEAN :
           start_auto_mining(p, c, ctor_fails)
    /\ UNCHANGED <<chainVars, nodeVars, netVars, channels, frameVars>>
    /\ UNCHANGED utilVars

\* Mutant of stop_auto_mining: a stop without a worker returns silently.
stop_auto_mining_silent ==
    IF auto_miner_thread = None
    THEN /\ calls' = Append(calls, Call("stop_auto_mining", <<>>, "ok"))
         /\ UNCHANGED <<amVars, threads>>
    ELSE /\ JoinOutcome(auto_miner_thread) # "blocked"
         /\ auto_miner_running' = FALSE
         /\ IF JoinOutcome(auto_miner_thread) = "ok"
            THEN /\ auto_miner_thread' = None
                 /\ calls' = Append(calls, Call("stop_auto_mining", <<>>, "ok"))
            ELSE /\ UNCHANGED auto_miner_thread
                 /\ calls' = Append(calls, Call("stop_auto_mining", <<>>,
                                                JoinOutcome(auto_miner_thread)))
         /\ UNCHANGED <<auto_miner_confirm_tx_block_count,
                        auto_miner_polling_interval, threads>>

\* Network.stop_auto_mining().  The result recorded is "ok" or the error
\* raised: NotRunning, or the error of Thread.join().
stop_auto_mining ==
    IF auto_miner_thread = None
    THEN /\ calls' = Append(calls, Call("stop_auto_mining", <<>>, "NotRunning"))
         /\ UNCHANGED <<amVars, threads>>
    ELSE /\ JoinOutcome(auto_miner_thread) # "blocked"
         /\ auto_miner_running' = FALSE
         /\ IF JoinOutcome(auto_miner_thread) = "ok"
            THEN /\ auto_miner_thread' = None
                 /\ calls' = Append(calls, Call("stop_auto_mining", <<>>, "ok"))
            ELSE /\ UNCHANGED auto_miner_thread
                 /\ calls' = Append(calls, Call("stop_auto_mining", <<>>,
                                                JoinOutcome(auto_miner_thread)))
         /\ UNCHANGED <<auto_miner_confirm_tx_block_count,
                        auto_miner_polling_interval, threads>>

StopAutoMining ==
    /\ Len(calls) < MaxCalls
    /\ stop_auto_mining
    /\ UNCHANGED <<chainVars, nodeVars, netVars, channels, frameVars>>
    /\ UNCHANGED utilVars

\* The test calls Network.mine_blocks(count).
MineBlocks ==
    /\ Len(calls) < MaxCalls
    /\ \E count \in MineCounts, fail1 \in BOOLEAN, fail2 \in BOOLEAN :
         /\ height + count <= MaxHeight
         /\ mine_blocks(count, fail1, fail2, 0)
         /\ calls' = Append(calls, Call("mine_blocks", <<count>>,
                                        mine_blocks_outcome(count, fail1, fail2)))
    /\ UNCHANGED <<amVars, threads, nodeVars, netVars, channels, frameVars>>
    /\ UNCHANGED utilVars

\* Software other than the testkit broadcasts a transaction.
TxArrives ==
    /\ mempool < MaxMempool
    /\ mempool' = mempool + 1
    /\ UNCHANGED <<amVars, threads, wallets, height, balance, sent, calls>>
    /\ UNCHANGED <<nodeVars, netVars, channels, frameVars>>
    /\ UNCHANGED utilVars

\* ------------------------------------------------------- Lightning nodes

\* The primary node, the secondary node and the nodes scenarios declare.
Nodes == {"main", "sec", "alice", "bob"}
NoNode == "none"

\* identity_pubkey of each node, and an identity no known node has.
Pubkey(n) ==
    CASE n = "main" -> "pk_main"
      [] n = "sec" -> "pk_sec"
      [] n = "alice" -> "pk_alice"
      [] n = "bob" -> "pk_bob"
Pubkeys == {"pk_main", "pk_sec", "pk_other"}

\* The classes a node object may be an instance of: LndRest, the
\* implementation the package ships, and LnNode, an implementation with the
\* signatures the LnNode protocol declares.
NodeImpls == {"LndRest", "LnNode"}

Max(a, b) == IF a > b THEN a ELSE b
Min(a, b) == IF a < b THEN a ELSE b

\* LndRest.get_spendable_sat(dest): the largest local_balance minus reserve
\* over the active channels with `dest`, starting from 0.
get_spendable_sat(node, d) ==
    LET chans == channels[node]
        spendable == {chans[i].local_balance - chans[i].local_chan_reserve_sat :
                        i \in {j \in 1..Len(chans) :
                                 chans[j].remote_pubkey = d /\ chans[j].active}}
        all == spendable \cup {0}
    IN  CHOOSE x \in all : \A y \in all : y <= x

\* Mutant of get_ln_p2p_address_by_id: an identity that is not found gets
\* the primary node's address.
get_ln_p2p_address_by_id_lenient(node_id) ==
    IF secondary_node # NoNode /\ Pubkey(secondary_node) = node_id
    THEN secondary_node
    ELSE IF node_id \in DOMAIN ln_nodes_by_pubkey
    THEN ln_nodes_by_pubkey[node_id].node
    ELSE "main"

\* Network._get_ln_p2p_address_by_id(node_id): the node whose address is
\* returned, or KeyError.
get_ln_p2p_address_by_id(node_id) ==
    IF Pubkey("main") = node_id THEN "main"
    ELSE IF secondary_node # NoNode /\ Pubkey(secondary_node) = node_id
    THEN secondary_node
    ELSE IF node_id \in DOMAIN ln_nodes_by_pubkey
    THEN ln_nodes_by_pubkey[node_id].node
    ELSE "KeyError"

\* ------------------------------------------------------ amounts as text

MAX_NON_WUMBO_CAPACITY == 2^24 - 1

\* The decimal digits "%d" prints for n >= 0.
RECURSIVE Digits(_)
Digits(n) == IF n < 10 THEN <<n>> ELSE Append(Digits(n \div 10), n % 10)

\* The number a string of decimal digits denotes.
RECURSIVE DigitsValue(_)
DigitsValue(ds) ==
    IF ds = <<>> THEN 0
    ELSE DigitsValue(SubSeq(ds, 1, Len(ds) - 1)) * 10 + ds[Len(ds)]

\* "%d.%d" % (coins_to_send // 100000000, coins_to_send % 100000000):
\* the digits before and after the point.
format_coins(coins_to_send) ==
    [int  |-> Digits(coins_to_send \div 100000000),
     frac |-> Digits(coins_to_send % 100000000)]

\* Decimal(amount) * 100000000 for an amount with at most 8 decimals.
decimal_sats(amount) ==
    DigitsValue(amount.int) * 100000000
        + DigitsValue(amount.frac) * 10^(8 - Len(amount.frac))

\* --------------------------------------------------------------- strings

\* A Python str is the sequence of its characters.
s_bitcoin == <<"b", "i", "t", "c", "o", "i", "n">>
s_lightning == <<"l", "i", "g", "h", "t", "n", "i", "n", "g">>
s_amount_eq == <<"a", "m", "o", "u", "n", "t", "=">>
s_amp_amount_eq == <<"&", "a", "m", "o", "u", "n", "t", "=">>
s_lnbcrt == <<"l", "n", "b", "c", "r", "t">>
s_ln == <<"l", "n">>
s_bc1 == <<"b", "c", "1">>

\* s.startswith(prefix)
startswith(s, prefix) ==
    /\ Len(s) >= Len(prefix)
    /\ SubSeq(s, 1, Len(prefix)) = prefix

\* s[a:b], with 0 <= a
slice(s, a, b) ==
    IF a >= Min(b, Len(s)) THEN <<>> ELSE SubSeq(s, a + 1, Min(b, Len(s)))

\* s.find(sub, start): the lowest index at or after `start` where `sub`
\* occurs in s; -1 when there is none.
find(s, sub, start) ==
    LET at == {i \in start..(Len(s) - Len(sub)) : slice(s, i, i + Len(sub)) = sub}
    IN  IF at = {} THEN -1 ELSE CHOOSE i \in at : \A j \in at : i <= j

\* s.split(sep), for a separator of one character.
RECURSIVE split(_, _)
split(s, sep) ==
    LET pos == find(s, sep, 0) IN
    IF pos < 0 THEN <<s>>
    ELSE <<slice(s, 0, pos)>> \o split(slice(s, pos + 1, Len(s)), sep)

\* ---------------------------------------------------------- payment links

\* What _parse_link(link) gives: a ChainPayment (address, amount), a
\* LightningPayment (invoice), or the exception it raises (error).
ChainPayment(address, amount) ==
    [kind |-> "ChainPayment", address |-> address, amount |-> amount,
     invoice |-> <<>>, error |-> ""]
LightningPayment(bolt11) ==
    [kind |-> "LightningPayment", address |-> <<>>, amount |-> <<>>,
     invoice |-> bolt11, error |-> ""]
InvalidPaymentLink(error) ==
    [kind |-> "InvalidPaymentLink", address |-> <<>>, amount |-> <<>>,
     invoice |-> <<>>, error |-> error]
NoPayment ==
    [kind |-> "None", address |-> <<>>, amount |-> <<>>,
     invoice |-> <<>>, error |-> ""]

\* Mutant of parse_bare: the `ln` test ahead of the `lnbcrt` test.
parse_bare_ln_first(lnk) ==
    IF startswith(lnk, <<"1">>) \/ startswith(lnk, <<"3">>) \/ startswith(lnk, s_bc1)
    THEN InvalidPaymentLink("missing amount")
    ELSE IF startswith(lnk, s_ln)
    THEN InvalidPaymentLink("different network")
    ELSE IF startswith(lnk, s_lnbcrt)
    THEN LightningPayment(lnk)
    ELSE InvalidPaymentLink("Unknown payment link format")

\* _parse_link, len(parts) == 1: a link without ':'.
parse_bare(lnk) ==
    IF startswith(lnk, <<"1">>) \/ startswith(lnk, <<"3">>) \/ startswith(lnk, s_bc1)
    THEN InvalidPaymentLink("missing amount")
    ELSE IF startswith(lnk, s_lnbcrt)
    THEN LightningPayment(lnk)
    ELSE IF startswith(lnk, s_ln)
    THEN InvalidPaymentLink("different network")
    ELSE InvalidPaymentLink("Unknown payment link format")

\* Mutant of amount_pos: only a leading `amount=` is looked for.
amount_pos_leading_only(params) ==
    IF startswith(params, s_amount_eq) THEN Len(s_amount_eq) ELSE -1

\* _parse_link, schema bitcoin: the index in `params` where the value of the
\* amount parameter starts; -1 when there is no amount parameter.
amount_pos(params) ==
    IF startswith(params, s_amount_eq)
    THEN Len(s_amount_eq)
    ELSE LET pos == find(params, s_amp_amount_eq, 0) IN
         IF pos < 0 THEN -1 ELSE pos + Len(s_amp_amount_eq)

\* Mutant of parse_bitcoin: no test for a second '?'.
parse_bitcoin_any_parts(rest) ==
    LET parts == split(rest, <<"?">>) IN
    IF Len(parts) < 2
    THEN InvalidPaymentLink("Unknown amount")
    ELSE LET address == parts[1]
             params == parts[2]
             pos == amount_pos(params)
             amp == find(params, <<"&">>, pos)
             end == IF amp < 0 THEN Len(params) ELSE amp
         IN  IF pos < 0
             THEN InvalidPaymentLink("Unknown amount")
             ELSE ChainPayment(address, slice(params, pos, end))

\* _parse_link, schema bitcoin: `rest` is the link after "bitcoin:".
parse_bitcoin(rest) ==
    LET parts == split(rest, <<"?">>) IN
    IF Len(parts) < 2
    THEN InvalidPaymentLink("Unknown amount")
    ELSE IF Len(parts) > 2
    THEN InvalidPaymentLink("Invalid character '?' in the parameters")
    ELSE LET address == parts[1]
             params == parts[2]
             pos == amount_pos(params)
             amp == find(params, <<"&">>, pos)
             end == IF amp < 0 THEN Len(params) ELSE amp
         IN  IF pos < 0
             THEN InvalidPaymentLink("Unknown amount")
             ELSE ChainPayment(address, slice(params, pos, end))

\* _parse_link(link)
parse_link(lnk) ==
    LET parts == split(lnk, <<":">>)
        schema == parts[1]
    IN  IF Len(parts) = 1 THEN parse_bare(lnk)
        ELSE IF schema = s_bitcoin
        THEN parse_bitcoin(slice(lnk, Len(schema) + 1, Len(lnk)))
        ELSE IF schema = s_lightning
        THEN LightningPayment(slice(lnk, Len(schema) + 1, Len(lnk)))
        ELSE InvalidPaymentLink("Unknown schema")

\* The characters of the decimal digits.
DigitChars == <<"0", "1", "2", "3", "4", "5", "6", "7", "8", "9">>

\* The text "%d.%d" gives for the two numbers of format_coins.
text(amount) ==
    [i \in 1..Len(amount.int) |-> DigitChars[amount.int[i] + 1]]
        \o <<".">>
        \o [i \in 1..Len(amount.frac) |-> DigitChars[amount.frac[i] + 1]]

\* Decimal(s) for a text of digits and points: the digits before and after
\* the point; not valid (InvalidOperation) when there is no digit or more
\* than one point.
Decimal(s) ==
    LET parts == split(s, <<".">>)
        digit(c) == CHOOSE d \in 0..9 : DigitChars[d + 1] = c
        digits(t) == [i \in 1..Len(t) |-> digit(t[i])]
        int == parts[1]
        frac == IF Len(parts) > 1 THEN parts[2] ELSE <<>>
        valid == /\ Len(parts) <= 2
                 /\ Len(int) + Len(frac) > 0
                 /\ \A i \in 1..Len(int) : \E d \in 0..9 : DigitChars[d + 1] = int[i]
                 /\ \A i \in 1..Len(frac) : \E d \in 0..9 : DigitChars[d + 1] = frac[i]
    IN  IF valid
        THEN [valid |-> TRUE, int |-> digits(int), frac |-> digits(frac)]
        ELSE [valid |-> FALSE, int |-> <<>>, frac |-> <<>>]

\* Parameters of one query string.
MaxParams == 2

\* Links without ':' : addresses, invoices of regtest ("lnbcrt"), of mainnet
\* ("lnbc") and of testnet ("lntb"), and other text.
BareLinks ==
    { <<"1", "A">>, <<"3", "A">>, <<"b", "c", "1", "q">>,
      <<"b", "c", "r", "t", "1", "q">>,
      <<"l", "n", "b", "c", "r", "t", "1", "a">>,
      <<"l", "n", "b", "c", "r", "t", "9", "b">>,
      <<"l", "n", "b", "c", "1", "a">>,
      <<"l", "n", "t", "b", "1", "a">>,
      <<"l", "n">>, <<"x">>, <<>> }

\* The parameters a query string is made of.
AmountTexts == { <<"1">>, <<"0", ".", "5">>, <<>> }
OtherParams == { <<"x", "=", "1">>, <<"x">> \o s_amount_eq \o <<"9">> }
Params == {s_amount_eq \o a : a \in AmountTexts} \cup OtherParams

\* "&".join(ps)
RECURSIVE join(_)
join(ps) ==
    IF Len(ps) = 0 THEN <<>>
    ELSE IF Len(ps) = 1 THEN ps[1]
    ELSE ps[1] \o <<"&">> \o join(Tail(ps))

ParamLists == UNION {[1..n -> Params] : n \in 0..MaxParams}
Addresses == { <<"b", "c", "r", "t", "1", "q">>, <<>> }

\* What follows "bitcoin:": an address alone, an address and a query string,
\* and text with a second '?'.
BitcoinRests ==
    Addresses
    \cup {a \o <<"?">> \o join(ps) : a \in Addresses, ps \in ParamLists}
    \cup {a \o <<"?">> \o p \o <<"?">> \o q :
            a \in Addresses, p \in Params, q \in {<<>>, <<"x">>}}

Links ==
    BareLinks
    \cup {s_bitcoin \o <<":">> \o rest : rest \in BitcoinRests}
    \cup {s_lightning \o <<":">> \o rest : rest \in BareLinks}
    \cup {<<"h", "t", "t", "p">> \o <<":">> \o rest :
            rest \in {<<>>, <<"l", "n", "b", "c", "r", "t", "1", "a">>,
                      <<"A", "?">> \o s_amount_eq \o <<"1">>}}
    \cup {<<":">>, <<"B", "i", "t", "c", "o", "i", "n", ":", "A", "?">>
                        \o s_amount_eq \o <<"1">>}

\* Calls the test makes on the Network in one run.
MaxNetworkCalls == 1

\* The links given to auto_pay: three regtest invoices, a payment of
\* 0.390625 BTC (what one batch may bring in, so that the 100000 satoshis on
\* top of it need a second one), a payment without amount value, a mainnet
\* invoice, bare and behind the lightning: scheme.
PayLinks ==
    { s_lnbcrt \o <<"1", "a">>,
      s_lightning \o <<":">> \o s_lnbcrt \o <<"9", "b">>,
      s_lnbcrt \o <<"2", "c">>,
      s_bitcoin \o <<":", "b", "c", "r", "t", "1", "q", "?">> \o s_amount_eq
            \o <<"0", ".", "3", "9", "0", "6", "2", "5">>,
      s_bitcoin \o <<":", "b", "c", "r", "t", "1", "q", "?">> \o s_amount_eq,
      <<"l", "n", "b", "c", "1", "a">>,
      s_lightning \o <<":", "l", "n", "b", "c", "1", "a">> }

\* amount_msat of the create_ln_invoice calls.
InvoiceMsats == {0, 1001}

\* Network objects the test constructs.
MaxNetworks == 2
\* Nodes and channels of one scenario file.
MaxScenarioNodes == 2
MaxScenarioChannels == 1

\* The node declarations and channel declarations scenario files are made of.
NodeDecls ==
    { [name |-> "alice", type |-> "lnd"], [name |-> "bob", type |-> "lnd"],
      [name |-> "Carol", type |-> "lnd"], [name |-> "bob", type |-> "eclair"] }
\* The optional keys of a channel table: none; those of the example in the
\* docstring of load_scenario; and keys spelt as load_scenario reads them, for
\* the forward direction only, with `private`.
NoOptions == [k \in {} |-> 0]
DocumentedOptions ==
    [push_sats |-> 100000,
     fwd_fee_proportional_millionths |-> 1000,
     fwd_fee_base_msats |-> 100,
     fwd_timelock_delta |-> 144,
     rev_fee_proportional_millionths |-> 1000,
     rev_fee_base_msats |-> 100,
     rev_timelock_delta |-> 144]
ForwardOptions ==
    [private |-> TRUE,
     fwd_fee_base_msat |-> 100,
     fwd_fee_proportional_millionths |-> 1000,
     fwd_time_lock_delta |-> 40]
ChannelDecls ==
    { [initiator |-> "alice", receiver |-> "bob", capacity_sats |-> 1000000,
       options |-> DocumentedOptions],
      [initiator |-> "alice", receiver |-> "bob", capacity_sats |-> 1000000,
       options |-> ForwardOptions],
      [initiator |-> "$system", receiver |-> "alice", capacity_sats |-> 20000,
       options |-> NoOptions] }

\* The scenario files: tables of nodes (no name twice) and of channels (no
\* pair twice), in the order of the file.
Scenarios ==
    { [nodes |-> ns, channels |-> cs] :
        ns \in {ns \in UNION {[1..n -> NodeDecls] : n \in 0..MaxScenarioNodes} :
                  \A i, j \in 1..Len(ns) : ns[i].name = ns[j].name => i = j},
        cs \in {cs \in UNION {[1..n -> ChannelDecls] : n \in 0..MaxScenarioChannels} :
                  \A i, j \in 1..Len(cs) :
                      (/\ cs[i].initiator = cs[j].initiator
                       /\ cs[i].receiver = cs[j].receiver) => i = j} }
NoScenario == [nodes |-> <<>>, channels |-> <<>>]

\* ------------------------------------------------------ liquidity engine

\* Mutant of channel_capacity: min and max exchanged.
channel_capacity_swapped(a) == Min(Max(a * 2, MAX_NON_WUMBO_CAPACITY), 20000)

\* _prepare_channel: channel_capacity = max(min(amount_sat * 2, MAX), 20000)
channel_capacity(a) == Max(Min(a * 2, MAX_NON_WUMBO_CAPACITY), 20000)

\* source.get_chain_address(): an address of the node's wallet.
get_chain_address(node) == <<"address of", node>>

\* _open_channel: coins_to_send = amount_sat + 100000, formatted, to be paid
\* to an address of the source node (auto_pay_legacy).
open_payment(node, capacity_sat) ==
    ChainPayment(get_chain_address(node),
                 text(format_coins(capacity_sat + 100000)))

\* Mutant of coins_needed: nothing on top of the amount.
coins_needed_unbuffered(amount) == decimal_sats(amount)

\* _prepare_chain_coins: the balance wanted before sending `amount`.
coins_needed(amount) == decimal_sats(amount) + 100000

\* The calls in progress: the call made by the test and the calls nested in
\* it; the innermost one is the one being executed.
Running == {i \in 1..Len(calls) : calls[i].result = "running"}
Innermost == CHOOSE i \in Running : \A j \in Running : j <= i

\* The operation that made call number k: the innermost call in progress
\* below k, or the test.
CallerOf(k) ==
    LET below == {i \in Running : i < k} IN
    IF below = {} THEN "test"
    ELSE calls[CHOOSE i \in below : \A j \in below : j <= i].op

\* The call being executed ends with result r.
SetResult(r) == calls' = [calls EXCEPT ![Innermost].result = r]

\* The call being executed, made by the test, returns.
Return(r) ==
    /\ pc' = "idle"
    /\ SetResult(r)
    /\ UNCHANGED <<source, dest, amount_sat, open_amount_sat, last_spendable,
                   payment>>

\* The call being executed raises `err`, which no caller catches.
Abort(err) ==
    /\ pc' = "idle"
    /\ calls' = [i \in 1..Len(calls) |->
                    IF i \in Running THEN [calls[i] EXCEPT !.result = err]
                    ELSE calls[i]]
    /\ UNCHANGED <<source, dest, amount_sat, open_amount_sat, last_spendable,
                   payment>>

Goto(label) ==
    /\ pc' = label
    /\ UNCHANGED <<source, dest, amount_sat, open_amount_sat, last_spendable,
                   payment, calls>>

\* Where the caller of _prepare_channel goes on when it returns.
after_prepare_channel(caller) ==
    CASE caller = "auto_pay" -> "pay"
      [] caller = "create_ln_invoice" -> "create_invoice"
      [] OTHER -> "idle"

\* Mutant of prepare_channel: `<=` for `<` in the liquidity test.
prepare_channel_le(s, d, a) ==
    LET spendable == get_spendable_sat(s, d) IN
    /\ source' = s
    /\ dest' = d
    /\ amount_sat' = a
    /\ last_spendable' = spendable
    /\ IF spendable <= a
       THEN /\ open_amount_sat' = channel_capacity(a)
            /\ payment' = open_payment(s, channel_capacity(a))
            /\ pc' = "coins"
            /\ calls' = Append(calls, Call("_prepare_channel", <<s, d, a>>, "running"))
       ELSE /\ pc' = after_prepare_channel(CallerOf(Len(calls) + 1))
            /\ calls' = Append(calls, Call("_prepare_channel", <<s, d, a>>, "ok"))
            /\ UNCHANGED <<open_amount_sat, payment>>

\* Network._prepare_channel(source, dest, amount_sat), up to its first
\* collaborator call that changes anything: the spendable balance is queried
\* and either suffices (return) or a channel of channel_capacity is to be
\* opened (_open_channel, which starts by funding the source node).
prepare_channel(s, d, a) ==
    LET spendable == get_spendable_sat(s, d) IN
    /\ source' = s
    /\ dest' = d
    /\ amount_sat' = a
    /\ last_spendable' = spendable
    /\ IF spendable < a
       THEN /\ open_amount_sat' = channel_capacity(a)
            /\ payment' = open_payment(s, channel_capacity(a))
            /\ pc' = "coins"
            /\ calls' = Append(calls, Call("_prepare_channel", <<s, d, a>>, "running"))
       ELSE /\ pc' = after_prepare_channel(CallerOf(Len(calls) + 1))
            /\ calls' = Append(calls, Call("_prepare_channel", <<s, d, a>>, "ok"))
            /\ UNCHANGED <<open_amount_sat, payment>>

\* The call sites: LightningPayment.auto_pay (the secondary node pays the
\* invoice's destination) and create_ln_invoice (the primary node pays the
\* secondary node).
PrepareChannel ==
    /\ pc = "idle"
    /\ Len(calls) < MaxPrepareCalls
    /\ \E a \in AmountSats :
         \/ \E d \in Pubkeys \ {Pubkey(secondary_node)} :
                prepare_channel(secondary_node, d, a)
         \/ prepare_channel("main", Pubkey(secondary_node), a)
    /\ UNCHANGED <<amVars, threads, chainVars, nodeVars, netVars, channels>>
    /\ UNCHANGED utilVars

\* ChainPayment.auto_pay -> _prepare_chain_coins: _prepare_wallet().
PrepareChainCoins ==
    /\ pc = "coins"
    /\ wallets' = prepare_wallet
    /\ Goto("fund")
    /\ UNCHANGED <<amVars, threads, height, mempool, balance, sent, nodeVars, netVars, channels>>
    /\ UNCHANGED utilVars

\* _prepare_chain_coins: while getbalance() < needed: mine_blocks(101).
FundMine ==
    /\ pc = "fund"
    /\ balance < coins_needed(Decimal(payment.amount))
    /\ height + 101 <= MaxFundHeight
    /\ \E fail1 \in BOOLEAN, fail2 \in BOOLEAN, reward \in Rewards :
         /\ mine_blocks(101, fail1, fail2, reward)
         /\ IF mine_blocks_outcome(101, fail1, fail2) = "ok"
            THEN Goto("fund")
            ELSE Abort(mine_blocks_outcome(101, fail1, fail2))
    /\ UNCHANGED <<amVars, threads, nodeVars, netVars, channels>>
    /\ UNCHANGED utilVars

\* _send_coins: sendtoaddress(address, amount), once the balance suffices.
SendCoins ==
    /\ pc = "fund"
    /\ balance >= coins_needed(Decimal(payment.amount))
    /\ sent' = Append(sent, [address |-> payment.address,
                             amount |-> payment.amount])
    /\ balance' = balance - decimal_sats(Decimal(payment.amount)) - SendFee
    /\ mempool' = mempool + 1
    /\ Goto("sent")
    /\ UNCHANGED <<amVars, threads, wallets, height, nodeVars, netVars, channels>>
    /\ UNCHANGED utilVars

\* _send_coins: mine_blocks(6), confirming the transaction.
ConfirmCoins ==
    /\ pc = "sent"
    /\ \E fail1 \in BOOLEAN, fail2 \in BOOLEAN :
         /\ mine_blocks(6, fail1, fail2, 0)
         /\ IF mine_blocks_outcome(6, fail1, fail2) = "ok"
            THEN IF calls[Innermost].op = "auto_pay"
                 THEN Return("ok")
                 ELSE Goto("resolve")
            ELSE Abort(mine_blocks_outcome(6, fail1, fail2))
    /\ UNCHANGED <<amVars, threads, nodeVars, netVars, channels>>
    /\ UNCHANGED utilVars

\* _open_channel: node_address = self._get_ln_p2p_address_by_id(dest).
ResolveDest ==
    /\ pc = "resolve"
    /\ IF get_ln_p2p_address_by_id(dest) = "KeyError"
       THEN Abort("KeyError")
       ELSE Goto("open")
    /\ UNCHANGED <<amVars, threads, chainVars, nodeVars, netVars, channels>>
    /\ UNCHANGED utilVars

\* table[key], with `default` where Python catches the KeyError.
get(table, key, default) ==
    IF key \in DOMAIN table THEN table[key] ELSE default

\* load_scenario: push_sats and private of one channel table.
edge_push_sats(edge) == get(edge.options, "push_sats", 0)
edge_private(edge) == get(edge.options, "private", FALSE)

\* The push_sat and private arguments of the _open_channel call in progress:
\* those load_scenario passes, the defaults of the signature for the callers
\* that pass none.
open_channel_args ==
    IF calls[Innermost].op = "load_scenario"
    THEN [push_sat |-> edge_push_sats(scenario.channels[idx]),
          private |-> edge_private(scenario.channels[idx])]
    ELSE [push_sat |-> 0, private |-> FALSE]

\* source.open_channel(node_address, amount_sat, push_sat, private).
\* LndRest.open_channel takes (peer, capacity_sat) only: the call with four
\* arguments raises TypeError before anything is sent to the node.  An LnNode
\* opens the channel; `reserve` is the reserve the node reports for it.
open_channel(node, peer, capacity_sat, push_sat, private, reserve) ==
    IF impl = "LndRest"
    THEN /\ UNCHANGED channels
         /\ Abort("TypeError")
    ELSE /\ channels' = [channels EXCEPT ![node] = Append(@,
                [remote_pubkey |-> peer,
                 capacity |-> capacity_sat,
                 local_balance |-> capacity_sat - push_sat,
                 local_chan_reserve_sat |-> reserve,
                 private |-> private,
                 active |-> FALSE])]
         /\ Goto("confirm")

OpenChannel ==
    /\ pc = "open"
    /\ \E reserve \in {0, open_amount_sat \div 100} :
         open_channel(source, dest, open_amount_sat, open_channel_args.push_sat,
                      open_channel_args.private, reserve)
    /\ UNCHANGED <<amVars, threads, chainVars, nodeVars, netVars>>
    /\ UNCHANGED utilVars

\* Go on at `label`, or return to the test.
Continue(label) == IF label = "return" THEN Return("ok") ELSE Goto(label)

\* Where the caller of _open_channel goes on when it returns: _prepare_channel
\* starts polling, warm_up opens the channel back or returns, load_scenario
\* sets the channel's policies.
after_open_channel ==
    CASE calls[Innermost].op = "_prepare_channel" -> "poll"
      [] calls[Innermost].op = "warm_up" ->
            IF source = "main" THEN "return" ELSE "warm_up_open2"
      [] calls[Innermost].op = "load_scenario" -> "scenario_policy"

\* _open_channel: mine_blocks(6), confirming the channel; the channel is
\* returned to the caller.
ConfirmChannel ==
    /\ pc = "confirm"
    /\ \E fail1 \in BOOLEAN, fail2 \in BOOLEAN :
         /\ mine_blocks(6, fail1, fail2, 0)
         /\ IF mine_blocks_outcome(6, fail1, fail2) = "ok"
            THEN Continue(after_open_channel)
            ELSE Abort(mine_blocks_outcome(6, fail1, fail2))
    /\ UNCHANGED <<amVars, threads, nodeVars, netVars, channels>>
    /\ UNCHANGED utilVars

\* Mutant of poll_spendable: `if` for `while`, one poll and return.
poll_spendable_once ==
    /\ last_spendable' = get_spendable_sat(source, dest)
    /\ pc' = after_prepare_channel(CallerOf(Innermost))
    /\ SetResult("ok")
    /\ UNCHANGED <<source, dest, amount_sat, open_amount_sat, payment>>

\* _prepare_channel: while source.get_spendable_sat(dest) < amount_sat: sleep(1)
poll_spendable ==
    LET spendable == get_spendable_sat(source, dest) IN
    /\ last_spendable' = spendable
    /\ IF spendable < amount_sat
       THEN /\ pc' = "poll"
            /\ UNCHANGED calls
       ELSE /\ pc' = after_prepare_channel(CallerOf(Innermost))
            /\ SetResult("ok")
    /\ UNCHANGED <<source, dest, amount_sat, open_amount_sat, payment>>

PollSpendable ==
    /\ pc = "poll"
    /\ poll_spendable
    /\ UNCHANGED <<amVars, threads, chainVars, nodeVars, netVars, channels>>
    /\ UNCHANGED utilVars

\* The Lightning node sees its channel confirmed: the channel becomes active.
\* Only get_spendable_sat observes it, so the moment is taken where a read is
\* near: in the polling loop, ahead of the _prepare_channel call of auto_pay
\* or create_ln_invoice, and between two _prepare_channel calls.
ActivateChannel ==
    /\ \/ pc \in {"poll", "prepare"}
       \/ pc = "idle" /\ calls # <<>> /\ calls[Len(calls)].op = "_prepare_channel"
    /\ \E n \in Nodes, i \in 1..MaxPrepareCalls :
         /\ i <= Len(channels[n])
         /\ ~channels[n][i].active
         /\ channels' = [channels EXCEPT ![n][i].active = TRUE]
    /\ UNCHANGED <<amVars, threads, chainVars, nodeVars, netVars, frameVars, calls>>
    /\ UNCHANGED utilVars

\* ------------------------------------------------------- calls of the test

\* The calls the test has made (those nested in them left out).
TopCalls == Cardinality({i \in 1..Len(calls) : calls[i].op # "_prepare_channel"})

\* The node processes that have been started.
Started ==
    {launched[i].node : i \in 1..Len(launched)}
        \cup (IF secondary_node = NoNode THEN {} ELSE {secondary_node})

\* The node whose wait_init() is being executed, if any.
Awaited ==
    IF pc \in {"parse_invoice_wait", "ln_pay_wait", "pay_wait",
               "create_ln_invoice_wait", "warm_up_wait"}
    THEN {secondary_node}
    ELSE IF pc = "scenario_join" THEN {scenario.nodes[idx].name}
    ELSE {}

\* A started node finishes synchronising with the chain (getinfo answers
\* synced_to_chain from now on).  Only wait_init observes it, so the moment
\* is taken while a wait_init for the node is polling.
NodeSyncs ==
    /\ \E n \in (Started \cap Awaited) \ synced : synced' = synced \cup {n}
    /\ UNCHANGED <<amVars, threads, chainVars, nodeVars, channels, frameVars,
                   calls, link, launched, initialized, objects,
                   scenarioVars, lnVars>>
    /\ UNCHANGED utilVars

\* Mutant of spawn_if_none: the secondary node is spawned unconditionally.
spawn_always ==
    /\ secondary_node' = "sec"
    /\ launched' = Append(launched, [node |-> "sec", by |-> "_spawn_secondary_node"])
    /\ objects' = objects + 1

\* if self._secondary_node is None:
\*     self._secondary_node = self._spawn_secondary_node(SECONDARY_NODE_ID)
\* _spawn_secondary_node creates the node's configuration, launches its
\* process and constructs the object that talks to it.
spawn_if_none ==
    IF secondary_node = NoNode
    THEN /\ secondary_node' = "sec"
         /\ launched' = Append(launched, [node |-> "sec", by |-> "_spawn_secondary_node"])
         /\ objects' = objects + 1
    ELSE UNCHANGED <<secondary_node, launched, objects>>

\* Where each `if self._secondary_node is None` is, and where the code goes
\* on after it: _parse_invoice, LightningPayment.auto_pay, _pay_ln_invoice,
\* create_ln_invoice.
after_spawn(label) ==
    CASE label = "parse_invoice" -> "parse_invoice_wait"
      [] label = "ln_pay" -> "ln_pay_wait"
      [] label = "pay" -> "pay_wait"
      [] label = "create_ln_invoice" -> "create_ln_invoice_wait"

EnsureSecondary ==
    /\ pc \in {"parse_invoice", "ln_pay", "pay", "create_ln_invoice"}
    /\ spawn_if_none
    /\ Goto(after_spawn(pc))
    /\ UNCHANGED <<amVars, threads, chainVars, ln_nodes_by_pubkey, impl,
                   channels, link, synced, initialized, scenarioVars, lnVars>>
    /\ UNCHANGED utilVars

\* Where each self._secondary_node.wait_init() is, and where the code goes on
\* after it.
after_wait_init(label) ==
    CASE label = "parse_invoice_wait" -> "decode"
      [] label = "ln_pay_wait" -> "prepare"
      [] label = "pay_wait" -> "pay_invoice"
      [] label = "create_ln_invoice_wait" -> "prepare"
      [] label = "warm_up_wait" -> "warm_up_open1"

\* LndRest.wait_init(): returns once getinfo has answered synced_to_chain.
WaitInit ==
    /\ pc \in {"parse_invoice_wait", "ln_pay_wait", "pay_wait",
               "create_ln_invoice_wait", "warm_up_wait"}
    /\ secondary_node \in synced
    /\ initialized' = initialized \cup {secondary_node}
    /\ Goto(after_wait_init(pc))
    /\ UNCHANGED <<amVars, threads, chainVars, nodeVars, channels, link,
                   launched, synced, objects, scenarioVars, lnVars>>
    /\ UNCHANGED utilVars

\* ---- auto_pay

\* LndRest.parse_invoice(invoice) of the primary node: what the node decodes
\* from the invoices it accepts (regtest invoices); it refuses all others.
parse_invoice(text_) ==
    IF text_ = s_lnbcrt \o <<"1", "a">>
    THEN [ok |-> TRUE, dest |-> "pk_main", amount_msat |-> 1500]
    ELSE IF text_ = s_lnbcrt \o <<"9", "b">>
    THEN [ok |-> TRUE, dest |-> "pk_other", amount_msat |-> 0]
    ELSE IF text_ = s_lnbcrt \o <<"2", "c">>
    THEN [ok |-> TRUE, dest |-> "pk_other", amount_msat |-> 1]
    ELSE [ok |-> FALSE, dest |-> NoNode, amount_msat |-> 0]

\* Mutant of sats_for: rounded down.
sats_floor(amount_msat) == amount_msat \div 1000

\* (amount_msat + 999) // 1000
sats_for(amount_msat) == (amount_msat + 999) \div 1000

NoInvoice == [text |-> <<>>, parsed |-> FALSE, dest |-> NoNode, amount_msat |-> 0]

\* Network.auto_pay(link): _parse_link(link).auto_pay(self), up to the first
\* call that changes anything.  A ChainPayment evaluates Decimal(amount) and
\* goes on to _prepare_chain_coins; a LightningPayment goes on to
\* _parse_invoice.
auto_pay(lnk) ==
    LET p == parse_link(lnk)
        ends(r) == /\ pc' = "idle"
                   /\ calls' = Append(calls, Call("auto_pay", <<lnk>>, r))
        goes(label) == /\ pc' = label
                       /\ calls' = Append(calls, Call("auto_pay", <<lnk>>, "running"))
    IN  /\ link' = lnk
        /\ payment' = p
        /\ UNCHANGED <<source, dest, amount_sat, open_amount_sat, last_spendable>>
        /\ CASE p.kind = "InvalidPaymentLink" ->
                  ends("InvalidPaymentLink") /\ UNCHANGED invoice
             [] p.kind = "ChainPayment" ->
                  /\ IF Decimal(p.amount).valid
                     THEN goes("coins")
                     ELSE ends("InvalidOperation")
                  /\ UNCHANGED invoice
             [] p.kind = "LightningPayment" ->
                  /\ goes("parse_invoice")
                  /\ invoice' = [NoInvoice EXCEPT !.text = p.invoice]

AutoPay ==
    /\ pc = "idle"
    /\ TopCalls < MaxNetworkCalls
    /\ \E lnk \in PayLinks : auto_pay(lnk)
    /\ UNCHANGED <<amVars, threads, chainVars, nodeVars, channels, procVars,
                   scenarioVars, paid>>
    /\ UNCHANGED utilVars

\* _parse_invoice: self._main_ln_node.parse_invoice(invoice)
DecodeInvoice ==
    /\ pc = "decode"
    /\ LET r == parse_invoice(invoice.text) IN
       IF r.ok
       THEN /\ invoice' = [invoice EXCEPT !.parsed = TRUE, !.dest = r.dest,
                                          !.amount_msat = r.amount_msat]
            /\ Goto("ln_pay")
       ELSE /\ UNCHANGED invoice
            /\ Abort("UnexpectedHttpStatusException")
    /\ UNCHANGED <<amVars, threads, chainVars, nodeVars, channels, link,
                   procVars, scenarioVars, paid>>
    /\ UNCHANGED utilVars

\* The _prepare_channel calls of LightningPayment.auto_pay (the secondary
\* node pays the invoice's destination) and of create_ln_invoice (the primary
\* node pays the secondary node).
PrepareLiquidity ==
    /\ pc = "prepare"
    /\ IF calls[Innermost].op = "auto_pay"
       THEN prepare_channel(secondary_node, invoice.dest,
                            sats_for(invoice.amount_msat))
       ELSE prepare_channel("main", Pubkey(secondary_node),
                            sats_for(calls[Innermost].args[1]))
    /\ UNCHANGED <<amVars, threads, chainVars, nodeVars, netVars, channels>>
    /\ UNCHANGED utilVars

\* _pay_ln_invoice: self._secondary_node.pay_invoice(invoice)
PayInvoice ==
    /\ pc = "pay_invoice"
    /\ paid' = Append(paid, [node |-> secondary_node, invoice |-> invoice.text])
    /\ Return("ok")
    /\ UNCHANGED <<amVars, threads, chainVars, nodeVars, channels, link,
                   procVars, scenarioVars, invoice>>
    /\ UNCHANGED utilVars

\* ---- create_ln_invoice

CreateLnInvoice ==
    /\ pc = "idle"
    /\ TopCalls < MaxNetworkCalls
    /\ \E amount_msat \in InvoiceMsats :
         calls' = Append(calls, Call("create_ln_invoice", <<amount_msat>>, "running"))
    /\ pc' = "create_ln_invoice"
    /\ UNCHANGED <<source, dest, amount_sat, open_amount_sat, last_spendable,
                   payment>>
    /\ UNCHANGED <<amVars, threads, chainVars, nodeVars, netVars, channels>>
    /\ UNCHANGED utilVars

\* return self._secondary_node.create_invoice(amount_msat, memo)
CreateInvoice ==
    /\ pc = "create_invoice"
    /\ Return("ok")
    /\ UNCHANGED <<amVars, threads, chainVars, nodeVars, netVars, channels>>
    /\ UNCHANGED utilVars

\* ---- warm_up

CHANNEL_WARMUP_CAPACITY == MAX_NON_WUMBO_CAPACITY

WarmUp ==
    /\ pc = "idle"
    /\ TopCalls < MaxNetworkCalls
    /\ \E blocks \in BOOLEAN, secondary_ln_node \in BOOLEAN, chans \in BOOLEAN :
         /\ calls' = Append(calls, Call("warm_up",
                                <<blocks, secondary_ln_node, chans>>, "running"))
         /\ pc' = IF blocks THEN "warm_up_blocks" ELSE "warm_up_node"
    /\ UNCHANGED <<source, dest, amount_sat, open_amount_sat, last_spendable,
                   payment>>
    /\ UNCHANGED <<amVars, threads, chainVars, nodeVars, netVars, channels>>
    /\ UNCHANGED utilVars

\* Where load_scenario goes on after its first loop and _prepare_blocks.
after_scenario_blocks ==
    IF scenario.nodes # <<>> THEN "scenario_join"
    ELSE IF scenario.channels # <<>> THEN "scenario_edges"
    ELSE "return"

\* _prepare_blocks: if getblockchaininfo()["blocks"] < 101:
\*     self.mine_blocks(101 - blocks)
\* called by warm_up and by load_scenario.
PrepareBlocks ==
    /\ pc \in {"warm_up_blocks", "scenario_blocks"}
    /\ LET next == IF pc = "warm_up_blocks" THEN "warm_up_node"
                   ELSE after_scenario_blocks
       IN  IF height < 101
           THEN \E fail1 \in BOOLEAN, fail2 \in BOOLEAN :
                  /\ mine_blocks(101 - height, fail1, fail2, 0)
                  /\ IF mine_blocks_outcome(101 - height, fail1, fail2) = "ok"
                     THEN Continue(next)
                     ELSE Abort(mine_blocks_outcome(101 - height, fail1, fail2))
           ELSE /\ UNCHANGED chainVars
                /\ Continue(next)
    /\ UNCHANGED <<amVars, threads, nodeVars, netVars, channels>>
    /\ UNCHANGED utilVars

\* warm_up: the secondary_ln_node / channels part.
WarmUpNode ==
    /\ pc = "warm_up_node"
    /\ LET secondary_ln_node == calls[Innermost].args[2]
           chans == calls[Innermost].args[3]
       IN  IF secondary_ln_node
           THEN /\ spawn_if_none
                /\ IF chans THEN Goto("warm_up_wait") ELSE Return("ok")
           ELSE /\ UNCHANGED <<secondary_node, launched, objects>>
                /\ IF chans THEN Abort("Exception") ELSE Return("ok")
    /\ UNCHANGED <<amVars, threads, chainVars, ln_nodes_by_pubkey, impl,
                   channels, link, synced, initialized, scenarioVars, lnVars>>
    /\ UNCHANGED utilVars

\* _open_channel(source, dest, amount_sat), up to its first call that changes
\* anything: the address and the amount of the funding payment are fixed.
enter_open_channel(s, d, capacity_sat) ==
    /\ source' = s
    /\ dest' = d
    /\ open_amount_sat' = capacity_sat
    /\ payment' = open_payment(s, capacity_sat)
    /\ pc' = "coins"
    /\ UNCHANGED <<amount_sat, last_spendable, calls>>

\* warm_up: the channel from the secondary node to the primary one, then the
\* channel back.
WarmUpOpen ==
    /\ pc \in {"warm_up_open1", "warm_up_open2"}
    /\ IF pc = "warm_up_open1"
       THEN enter_open_channel(secondary_node, Pubkey("main"),
                               CHANNEL_WARMUP_CAPACITY)
       ELSE enter_open_channel("main", Pubkey(secondary_node),
                               CHANNEL_WARMUP_CAPACITY)
    /\ UNCHANGED <<amVars, threads, chainVars, nodeVars, netVars, channels>>
    /\ UNCHANGED utilVars

\* ---- load_scenario

\* NODE_NAME_RE = re.compile("[a-z0-9_-]*")
NodeNameChars ==
    {"a", "b", "c", "d", "e", "f", "g", "h", "i", "j", "k", "l", "m", "n",
     "o", "p", "q", "r", "s", "t", "u", "v", "w", "x", "y", "z",
     "0", "1", "2", "3", "4", "5", "6", "7", "8", "9", "_", "-"}

\* The characters of the node names used.
Spelling(name) ==
    CASE name = "alice" -> <<"a", "l", "i", "c", "e">>
      [] name = "bob" -> <<"b", "o", "b">>
      [] name = "Carol" -> <<"C", "a", "r", "o", "l">>

\* NODE_NAME_RE.fullmatch(node_name)
fullmatch(name) ==
    \A i \in 1..Len(Spelling(name)) : Spelling(name)[i] \in NodeNameChars

LoadScenario ==
    /\ pc = "idle"
    /\ TopCalls < MaxNetworkCalls
    /\ \E scn \in Scenarios :
         /\ scenario' = scn
         /\ pc' = IF scn.nodes = <<>> THEN "scenario_blocks" ELSE "scenario_nodes"
    /\ idx' = 1
    /\ \E self \in 1..networks :
         calls' = Append(calls, Call("load_scenario", <<self>>, "running"))
    /\ UNCHANGED <<source, dest, amount_sat, open_amount_sat, last_spendable,
                   payment>>
    /\ UNCHANGED <<amVars, threads, chainVars, nodeVars, channels, link,
                   procVars, ln_nodes_by_name, policies, lnVars>>
    /\ UNCHANGED utilVars

\* Mutant of scenario_node: after the last node the second loop follows at
\* once, without _prepare_blocks.
scenario_node_no_blocks(n, last) ==
    IF ~fullmatch(n.name) \/ n.type # "lnd"
    THEN /\ Abort("Exception")
         /\ UNCHANGED <<launched, idx>>
    ELSE /\ launched' = Append(launched, [node |-> n.name, by |-> "load_scenario"])
         /\ idx' = IF last THEN 1 ELSE idx + 1
         /\ Goto(IF last THEN "scenario_join" ELSE "scenario_nodes")

\* load_scenario, first loop, one node: the name and the type are checked,
\* then the node's configuration is created and its process launched.
scenario_node(n, last) ==
    IF ~fullmatch(n.name) \/ n.type # "lnd"
    THEN /\ Abort("Exception")
         /\ UNCHANGED <<launched, idx>>
    ELSE /\ launched' = Append(launched, [node |-> n.name, by |-> "load_scenario"])
         /\ idx' = IF last THEN 1 ELSE idx + 1
         /\ Goto(IF last THEN "scenario_blocks" ELSE "scenario_nodes")

ScenarioNode ==
    /\ pc = "scenario_nodes"
    /\ scenario_node(scenario.nodes[idx], idx = Len(scenario.nodes))
    /\ UNCHANGED <<amVars, threads, chainVars, nodeVars, channels, link,
                   synced, initialized, objects, scenario, ln_nodes_by_name,
                   policies, lnVars>>
    /\ UNCHANGED utilVars

\* f[k] = v of a Python dict.
Put(f, k, v) == [x \in DOMAIN f \cup {k} |-> IF x = k THEN v ELSE f[x]]

\* Mutant of scenario_join: a second object is constructed for the entry by
\* pubkey.
scenario_join_two_objects(name, last) ==
    /\ objects' = objects + 2
    /\ initialized' = initialized \cup {name}
    /\ ln_nodes_by_pubkey' = Put(ln_nodes_by_pubkey, Pubkey(name),
                                 [node |-> name, object |-> objects + 2])
    /\ ln_nodes_by_name' = Put(ln_nodes_by_name, name,
                               [node |-> name, object |-> objects + 1])
    /\ idx' = IF last THEN 1 ELSE idx + 1
    /\ IF ~last THEN Goto("scenario_join")
       ELSE IF scenario.channels # <<>> THEN Goto("scenario_edges")
       ELSE Return("ok")

\* load_scenario, second loop, one node: get_testkit_node, wait_init, and the
\* two registrations.
scenario_join(name, last) ==
    LET node == [node |-> name, object |-> objects + 1] IN
    /\ objects' = objects + 1
    /\ initialized' = initialized \cup {name}
    /\ ln_nodes_by_pubkey' = Put(ln_nodes_by_pubkey, Pubkey(name), node)
    /\ ln_nodes_by_name' = Put(ln_nodes_by_name, name, node)
    /\ idx' = IF last THEN 1 ELSE idx + 1
    /\ IF ~last THEN Goto("scenario_join")
       ELSE IF scenario.channels # <<>> THEN Goto("scenario_edges")
       ELSE Return("ok")

ScenarioJoin ==
    /\ pc = "scenario_join"
    /\ scenario.nodes[idx].name \in synced
    /\ scenario_join(scenario.nodes[idx].name, idx = Len(scenario.nodes))
    /\ UNCHANGED <<amVars, threads, chainVars, secondary_node, impl, channels,
                   link, launched, synced, scenario, policies, lnVars>>
    /\ UNCHANGED utilVars

\* load_scenario, third loop: the node a name of the channels table stands
\* for, or KeyError.
scenario_lookup(name) ==
    IF name = "$system" THEN "main"
    ELSE IF name \in DOMAIN ln_nodes_by_name THEN ln_nodes_by_name[name].node
    ELSE "KeyError"

\* load_scenario, third loop, one channel: the two nodes are looked up and
\* _open_channel is called.
ScenarioEdge ==
    /\ pc = "scenario_edges"
    /\ LET edge == scenario.channels[idx]
           initiator == scenario_lookup(edge.initiator)
           receiver == scenario_lookup(edge.receiver)
       IN  IF initiator = "KeyError" \/ receiver = "KeyError"
           THEN Abort("KeyError")
           ELSE enter_open_channel(initiator, Pubkey(receiver), edge.capacity_sats)
    /\ UNCHANGED <<amVars, threads, chainVars, nodeVars, netVars, channels>>
    /\ UNCHANGED utilVars

\* Mutant of reverse_policy: the reverse direction takes what the forward
\* direction was given.
reverse_policy_as_forward(options) ==
    [fee_base_msat |-> get(options, "fwd_fee_base_msat", 1000),
     fee_proportional_millionths |->
        get(options, "fwd_fee_proportional_millionths", 100),
     time_lock_delta |-> get(options, "fwd_time_lock_delta", 144)]

\* load_scenario: the three values of the forward policy and of the reverse
\* policy of one channel table, each read under the key the code names, with
\* its default when the key is absent.
forward_policy(options) ==
    [fee_base_msat |-> get(options, "fwd_fee_base_msat", 1000),
     fee_proportional_millionths |->
        get(options, "fwd_fee_proportional_millionths", 100),
     time_lock_delta |-> get(options, "fwd_time_lock_delta", 144)]
reverse_policy(options) ==
    [fee_base_msat |-> get(options, "rev_fee_base_msat", 1000),
     fee_proportional_millionths |->
        get(options, "rev_fee_proportional_millionths", 100),
     time_lock_delta |-> get(options, "rev_time_lock_delta", 144)]

\* node.update_channel_policy(channel, fee_base_msat,
\*                            fee_proportional_millionths, time_lock_delta)
update_channel_policy(node, channel, policy) ==
    [node |-> node, channel |-> channel,
     fee_base_msat |-> policy.fee_base_msat,
     fee_proportional_millionths |-> policy.fee_proportional_millionths,
     time_lock_delta |-> policy.time_lock_delta]

\* load_scenario, third loop, one channel, after _open_channel has returned
\* the channel: the forward policy is given to the initiator, then the reverse
\* policy to the receiver.
ScenarioPolicy ==
    /\ pc = "scenario_policy"
    /\ LET edge == scenario.channels[idx]
           channel == <<source, Len(channels[source])>>
           last == idx = Len(scenario.channels)
       IN  /\ policies' = policies \o
                <<update_channel_policy(scenario_lookup(edge.initiator), channel,
                                        forward_policy(edge.options)),
                  update_channel_policy(scenario_lookup(edge.receiver), channel,
                                        reverse_policy(edge.options))>>
           /\ idx' = IF last THEN 1 ELSE idx + 1
           /\ IF last THEN Return("ok") ELSE Goto("scenario_edges")
    /\ UNCHANGED <<amVars, threads, chainVars, nodeVars, channels, link,
                   procVars, scenario, ln_nodes_by_name, lnVars>>
    /\ UNCHANGED utilVars

\* ------------------------------------------------------------ P2PAddr

\* P2PAddr(pubkey, host, port): an object with the three fields.
P2PAddr(pubkey, host, port) ==
    [ok |-> TRUE, pubkey |-> pubkey, host |-> host, port |-> port,
     error |-> ""]
\* What a call gives that raises instead of returning an address.
AddrError(error) ==
    [ok |-> FALSE, pubkey |-> <<>>, host |-> <<>>, port |-> 0,
     error |-> error]
NoAddr == AddrError("")

\* "%d" % n
str_int(n) ==
    LET digits(m) == [i \in 1..Len(Digits(m)) |-> DigitChars[Digits(m)[i] + 1]]
    IN  IF n < 0 THEN <<"-">> \o digits(-n) ELSE digits(n)

\* int(s) for a text without blanks and underscores: the number, or
\* ValueError when s is not a sign and digits.
int_str(s) ==
    LET signed == s # <<>> /\ s[1] \in {"-", "+"}
        body == IF signed THEN Tail(s) ELSE s
        isdigit(c) == \E d \in 0..9 : DigitChars[d + 1] = c
        digit(c) == CHOOSE d \in 0..9 : DigitChars[d + 1] = c
        value == DigitsValue([i \in 1..Len(body) |-> digit(body[i])])
    IN  IF body = <<>> \/ \E i \in 1..Len(body) : ~isdigit(body[i])
        THEN [ok |-> FALSE, value |-> 0]
        ELSE [ok |-> TRUE, value |-> IF signed /\ s[1] = "-" THEN -value ELSE value]

\* P2PAddr.serialize(): "%s@%s:%d" % (self.pubkey, self.host, self.port)
serialize(a) == a.pubkey \o <<"@">> \o a.host \o <<":">> \o str_int(a.port)

\* P2PAddr.parse(addr): the two unpackings of split() need exactly two parts
\* each (ValueError otherwise), int() needs a number.
parse(addr) ==
    LET parts == split(addr, <<"@">>) IN
    IF Len(parts) # 2
    THEN AddrError("ValueError")
    ELSE LET host_port == split(parts[2], <<":">>) IN
         IF Len(host_port) # 2
         THEN AddrError("ValueError")
         ELSE IF ~int_str(host_port[2]).ok
         THEN AddrError("ValueError")
         ELSE P2PAddr(parts[1], host_port[1], int_str(host_port[2]).value)

\* The addresses constructed: identities, hosts by name, by IPv4 address and
\* by IPv6 address, ports.
AddrPubkeys == { <<"0", "2", "a">>, <<"0", "3", "b">>, <<>> }
AddrHosts ==
    { <<"1", "2", "7", ".", "0", ".", "0", ".", "1">>,
      <<"l", "o", "c", "a", "l", "h", "o", "s", "t">>,
      <<":", ":", "1">>, <<>> }
AddrPorts == {0, 80, 9735, 65535}

\* a.serialize()
Serialize ==
    /\ p2p_addr.ok
    /\ p2p_text = <<>>
    /\ p2p_text' = serialize(p2p_addr)
    /\ UNCHANGED <<p2p_addr, p2p_parsed>>
    /\ UNCHANGED <<amVars, threads, chainVars, nodeVars, netVars, channels,
                   frameVars, calls, portVars, networks>>

\* P2PAddr.parse(text)
Parse ==
    /\ p2p_text # <<>>
    /\ p2p_parsed = NoAddr
    /\ p2p_parsed' = parse(p2p_text)
    /\ UNCHANGED <<p2p_addr, p2p_text>>
    /\ UNCHANGED <<amVars, threads, chainVars, nodeVars, netVars, channels,
                   frameVars, calls, portVars, networks>>

\* ------------------------------------------------------ port allocation

\* Processes that allocate ports, and allocate calls in one run.
MaxProcesses == 2
MaxAllocations == 3
\* The `count` arguments.
PortCounts == {1, 2}

Processes == 1..MaxProcesses

\* The frame of an allocate call that is not being executed.
NoAllocation == [pc |-> "idle", fd |-> 0, count |-> 0, last_port |-> 0, next_port |-> 0]

\* The files are numbered (a number stands for an inode); a path names a file
\* or, being 0, nothing.  os.open(state_path, O_RDWR | O_CREAT): the file the
\* path names, created empty when the path names nothing.
Open(p) ==
    /\ procs[p].pc = "idle"
    /\ Len(allocated) + Cardinality({q \in Processes : procs[q].pc # "idle"})
            < MaxAllocations
    /\ \E count \in PortCounts :
         IF state_path = 0
         THEN /\ files' = Append(files, <<>>)
              /\ flock' = Append(flock, 0)
              /\ state_path' = Len(files) + 1
              /\ procs' = [procs EXCEPT ![p] =
                    [NoAllocation EXCEPT !.pc = "flock", !.fd = Len(files) + 1,
                                         !.count = count]]
         ELSE /\ procs' = [procs EXCEPT ![p] =
                    [NoAllocation EXCEPT !.pc = "flock", !.fd = state_path,
                                         !.count = count]]
              /\ UNCHANGED <<files, flock, state_path>>
    /\ UNCHANGED <<tmp_state_path, allocated>>
    /\ UNCHANGED <<amVars, threads, chainVars, nodeVars, netVars, channels,
                   frameVars, calls, addrVars, networks>>

\* fcntl.flock(state_file, LOCK_EX): waits until nobody holds the lock of
\* the file the descriptor is open on.
Flock(p) ==
    /\ procs[p].pc = "flock"
    /\ flock[procs[p].fd] = 0
    /\ flock' = [flock EXCEPT ![procs[p].fd] = p]
    /\ procs' = [procs EXCEPT ![p].pc = "read"]
    /\ UNCHANGED <<state_path, tmp_state_path, files, allocated>>
    /\ UNCHANGED <<amVars, threads, chainVars, nodeVars, netVars, channels,
                   frameVars, calls, addrVars, networks>>

\* state = state_file.read(); last_port = 60000 if len(state) == 0 else
\* int(state); next_port = last_port + count
Read(p) ==
    /\ procs[p].pc = "read"
    /\ LET state == files[procs[p].fd]
           last_port == IF Len(state) = 0 THEN 60000 ELSE int_str(state).value
       IN  procs' = [procs EXCEPT ![p].pc = "write_tmp",
                                  ![p].last_port = last_port,
                                  ![p].next_port = last_port + procs[p].count]
    /\ UNCHANGED <<state_path, tmp_state_path, files, flock, allocated>>
    /\ UNCHANGED <<amVars, threads, chainVars, nodeVars, netVars, channels,
                   frameVars, calls, addrVars, networks>>

\* with open(tmp_state_path, "w") as tmp_state: write(str(next_port)), flush,
\* fdatasync.  Mode "w" creates the file or empties the one the path names.
WriteTmp(p) ==
    /\ procs[p].pc = "write_tmp"
    /\ IF tmp_state_path = 0
       THEN /\ files' = Append(files, str_int(procs[p].next_port))
            /\ flock' = Append(flock, 0)
            /\ tmp_state_path' = Len(files) + 1
       ELSE /\ files' = [files EXCEPT ![tmp_state_path] = str_int(procs[p].next_port)]
            /\ UNCHANGED <<flock, tmp_state_path>>
    /\ procs' = [procs EXCEPT ![p].pc = "rename"]
    /\ UNCHANGED <<state_path, allocated>>
    /\ UNCHANGED <<amVars, threads, chainVars, nodeVars, netVars, channels,
                   frameVars, calls, addrVars, networks>>

\* os.rename(tmp_state_path, state_path): the state path names the file the
\* temporary path named, which names nothing any more.  When the temporary
\* path names nothing the call raises FileNotFoundError, and leaving the
\* `with` block closes the state file, which releases its lock.
rename(p) ==
    IF tmp_state_path = 0
    THEN /\ flock' = [flock EXCEPT ![procs[p].fd] = 0]
         /\ procs' = [procs EXCEPT ![p] = NoAllocation]
         /\ allocated' = Append(allocated,
                [process |-> p, result |-> "FileNotFoundError", count |-> procs[p].count,
                 first |-> 0, stop |-> 0])
         /\ UNCHANGED <<state_path, tmp_state_path, files>>
    ELSE /\ state_path' = tmp_state_path
         /\ tmp_state_path' = 0
         /\ procs' = [procs EXCEPT ![p].pc = "unlock"]
         /\ UNCHANGED <<files, flock, allocated>>

Rename(p) ==
    /\ procs[p].pc = "rename"
    /\ rename(p)
    /\ UNCHANGED <<amVars, threads, chainVars, nodeVars, netVars, channels,
                   frameVars, calls, addrVars, networks>>

\* fcntl.flock(state_file, LOCK_UN); return range(last_port, next_port)
Unlock(p) ==
    /\ procs[p].pc = "unlock"
    /\ flock' = [flock EXCEPT ![procs[p].fd] = 0]
    /\ allocated' = Append(allocated,
            [process |-> p, result |-> "ok", count |-> procs[p].count,
             first |-> procs[p].last_port, stop |-> procs[p].next_port])
    /\ procs' = [procs EXCEPT ![p] = NoAllocation]
    /\ UNCHANGED <<state_path, tmp_state_path, files>>
    /\ UNCHANGED <<amVars, threads, chainVars, nodeVars, netVars, channels,
                   frameVars, calls, addrVars, networks>>

\* No P2PAddr is being handled; no port allocation has taken place.
NoAddrs ==
    /\ p2p_addr = NoAddr
    /\ p2p_text = <<>>
    /\ p2p_parsed = NoAddr
NoPorts ==
    /\ state_path = 0
    /\ tmp_state_path = 0
    /\ files = <<>>
    /\ flock = <<>>
    /\ procs = [p \in Processes |-> NoAllocation]
    /\ allocated = <<>>

\* The test has constructed one Network.
OneNetwork == networks = 1

\* Network(data), with data that has no secondary_lnd_host: __init__ binds
\* _main_bitcoind_url, _zmq_tx_port, _zmq_block_port, _main_ln_node and
\* _bitcoind_public_port on the new object, and nothing else.
NewNetwork ==
    /\ pc = "idle"
    /\ networks < MaxNetworks
    /\ networks' = networks + 1
    /\ UNCHANGED <<amVars, threads, chainVars, nodeVars, channels, frameVars,
                   calls, netVars, addrVars, portVars>>

\* self._ln_nodes_by_name and self._ln_nodes_by_pubkey, read on Network
\* object number `self`.  Neither __init__ nor a method binds an attribute of
\* these names on an object, so the lookup ends at the attribute of the class:
\* the one dict made when the class body was executed.
ln_nodes_by_name_of(self) == ln_nodes_by_name
ln_nodes_by_pubkey_of(self) == ln_nodes_by_pubkey

vars == <<auto_miner_running, auto_miner_confirm_tx_block_count,
          auto_miner_polling_interval, auto_miner_thread, threads,
          wallets, height, mempool, balance, sent,
          secondary_node, ln_nodes_by_pubkey, impl, channels,
          pc, source, dest, amount_sat, open_amount_sat, last_spendable,
          link, payment, ln_nodes_by_name, launched, synced, initialized,
          objects, scenario, idx, policies, invoice, paid, calls,
          p2p_addr, p2p_text, p2p_parsed,
          state_path, tmp_state_path, files, flock, procs, allocated,
          networks>>

Init ==
    /\ auto_miner_running = FALSE
    /\ auto_miner_confirm_tx_block_count = 6
    /\ auto_miner_polling_interval = 3
    /\ auto_miner_thread = None
    /\ threads = <<>>
    /\ wallets \in {0, 1}
    /\ height = 0
    /\ mempool = 0
    /\ balance = 0
    /\ sent = <<>>
    /\ calls = <<>>
    /\ secondary_node = NoNode
    /\ ln_nodes_by_pubkey = <<>>
    /\ impl = "LndRest"
    /\ channels = [n \in Nodes |-> <<>>]
    /\ pc = "idle"
    /\ source = NoNode
    /\ dest = NoNode
    /\ amount_sat = 0
    /\ open_amount_sat = 0
    /\ last_spendable = 0
    /\ link = <<>>
    /\ payment = NoPayment
    /\ ln_nodes_by_name = <<>>
    /\ launched = <<>>
    /\ synced = {}
    /\ initialized = {}
    /\ objects = 0
    /\ scenario = NoScenario
    /\ idx = 1
    /\ policies = <<>>
    /\ invoice = NoInvoice
    /\ paid = <<>>
    /\ NoAddrs
    /\ NoPorts
    /\ OneNetwork

Next ==
    \/ StartAutoMining
    \/ StopAutoMining
    \/ MineBlocks
    \/ TxArrives

Spec == Init /\ [][Next]_vars

\* A Network constructed with a secondary node (secondary_lnd_host), before
\* any call.
LiquidityInit ==
    /\ auto_miner_running = FALSE
    /\ auto_miner_confirm_tx_block_count = 6
    /\ auto_miner_polling_interval = 3
    /\ auto_miner_thread = None
    /\ threads = <<>>
    /\ wallets \in {0, 1}
    /\ height = 0
    /\ mempool = 0
    /\ balance = 0
    /\ sent = <<>>
    /\ calls = <<>>
    /\ secondary_node = "sec"
    /\ ln_nodes_by_pubkey = <<>>
    /\ impl \in NodeImpls
    /\ channels = [n \in Nodes |-> <<>>]
    /\ pc = "idle"
    /\ source = NoNode
    /\ dest = NoNode
    /\ amount_sat = 0
    /\ open_amount_sat = 0
    /\ last_spendable = 0
    /\ link = <<>>
    /\ payment = NoPayment
    /\ ln_nodes_by_name = <<>>
    /\ launched = <<>>
    /\ synced = {}
    /\ initialized = {}
    /\ objects = 0
    /\ scenario = NoScenario
    /\ idx = 1
    /\ policies = <<>>
    /\ invoice = NoInvoice
    /\ paid = <<>>
    /\ NoAddrs
    /\ NoPorts
    /\ OneNetwork

LiquidityNext ==
    \/ PrepareChannel
    \/ PrepareChainCoins
    \/ FundMine
    \/ SendCoins
    \/ ConfirmCoins
    \/ ResolveDest
    \/ OpenChannel
    \/ ConfirmChannel
    \/ PollSpendable
    \/ ActivateChannel

LiquiditySpec == LiquidityInit /\ [][LiquidityNext]_vars

\* A payment link, before _parse_link is applied to it.
ParseInit ==
    /\ auto_miner_running = FALSE
    /\ auto_miner_confirm_tx_block_count = 6
    /\ auto_miner_polling_interval = 3
    /\ auto_miner_thread = None
    /\ threads = <<>>
    /\ wallets = 0
    /\ height = 0
    /\ mempool = 0
    /\ balance = 0
    /\ sent = <<>>
    /\ calls = <<>>
    /\ secondary_node = NoNode
    /\ ln_nodes_by_pubkey = <<>>
    /\ impl = "LndRest"
    /\ channels = [n \in Nodes |-> <<>>]
    /\ pc = "idle"
    /\ source = NoNode
    /\ dest = NoNode
    /\ amount_sat = 0
    /\ open_amount_sat = 0
    /\ last_spendable = 0
    /\ link \in Links
    /\ payment = NoPayment
    /\ ln_nodes_by_name = <<>>
    /\ launched = <<>>
    /\ synced = {}
    /\ initialized = {}
    /\ objects = 0
    /\ scenario = NoScenario
    /\ idx = 1
    /\ policies = <<>>
    /\ invoice = NoInvoice
    /\ paid = <<>>
    /\ NoAddrs
    /\ NoPorts
    /\ OneNetwork

\* _parse_link(link) is applied.
ParseLink ==
    /\ payment = NoPayment
    /\ payment' = parse_link(link)
    /\ UNCHANGED <<amVars, threads, chainVars, nodeVars, netVars, channels,
                   pc, source, dest, amount_sat, open_amount_sat,
                   last_spendable, calls>>
    /\ UNCHANGED utilVars

ParseNext == ParseLink

ParseSpec == ParseInit /\ [][ParseNext]_vars

\* A Network right after construction, with or without secondary_lnd_host.
NetworkInit ==
    /\ auto_miner_running = FALSE
    /\ auto_miner_confirm_tx_block_count = 6
    /\ auto_miner_polling_interval = 3
    /\ auto_miner_thread = None
    /\ threads = <<>>
    /\ wallets = 0
    /\ height = 0
    /\ mempool = 0
    /\ balance = 0
    /\ sent = <<>>
    /\ calls = <<>>
    /\ secondary_node \in {NoNode, "sec"}
    /\ ln_nodes_by_pubkey = <<>>
    /\ impl \in NodeImpls
    /\ channels = [n \in Nodes |-> <<>>]
    /\ pc = "idle"
    /\ source = NoNode
    /\ dest = NoNode
    /\ amount_sat = 0
    /\ open_amount_sat = 0
    /\ last_spendable = 0
    /\ link = <<>>
    /\ payment = NoPayment
    /\ ln_nodes_by_name = <<>>
    /\ launched = <<>>
    /\ synced = {}
    /\ initialized = {}
    /\ objects = 0
    /\ scenario = NoScenario
    /\ idx = 1
    /\ policies = <<>>
    /\ invoice = NoInvoice
    /\ paid = <<>>
    /\ NoAddrs
    /\ NoPorts
    /\ OneNetwork

NetworkNext ==
    \/ AutoPay
    \/ CreateLnInvoice
    \/ WarmUp
    \/ LoadScenario
    \/ EnsureSecondary
    \/ WaitInit
    \/ DecodeInvoice
    \/ PrepareLiquidity
    \/ PayInvoice
    \/ CreateInvoice
    \/ PrepareBlocks
    \/ WarmUpNode
    \/ WarmUpOpen
    \/ ScenarioNode
    \/ ScenarioJoin
    \/ ScenarioEdge
    \/ ScenarioPolicy
    \/ PrepareChainCoins
    \/ FundMine
    \/ SendCoins
    \/ ConfirmCoins
    \/ ResolveDest
    \/ OpenChannel
    \/ ConfirmChannel
    \/ PollSpendable
    \/ ActivateChannel
    \/ NodeSyncs

NetworkSpec == NetworkInit /\ [][NetworkNext]_vars

\* The state of the Network that the definitions of P2PAddr and of the port
\* allocation do not touch.
NetworkAtRest ==
    /\ auto_miner_running = FALSE
    /\ auto_miner_confirm_tx_block_count = 6
    /\ auto_miner_polling_interval = 3
    /\ auto_miner_thread = None
    /\ threads = <<>>
    /\ wallets = 0
    /\ height = 0
    /\ mempool = 0
    /\ balance = 0
    /\ sent = <<>>
    /\ calls = <<>>
    /\ secondary_node = NoNode
    /\ ln_nodes_by_pubkey = <<>>
    /\ impl = "LndRest"
    /\ channels = [n \in Nodes |-> <<>>]
    /\ pc = "idle"
    /\ source = NoNode
    /\ dest = NoNode
    /\ amount_sat = 0
    /\ open_amount_sat = 0
    /\ last_spendable = 0
    /\ link = <<>>
    /\ payment = NoPayment
    /\ ln_nodes_by_name = <<>>
    /\ launched = <<>>
    /\ synced = {}
    /\ initialized = {}
    /\ objects = 0
    /\ scenario = NoScenario
    /\ idx = 1
    /\ policies = <<>>
    /\ invoice = NoInvoice
    /\ paid = <<>>

\* A P2PAddr object right after its construction.
AddrInit ==
    /\ NetworkAtRest
    /\ OneNetwork
    /\ NoPorts
    /\ \E pubkey \in AddrPubkeys, host \in AddrHosts, port \in AddrPorts :
          p2p_addr = P2PAddr(pubkey, host, port)
    /\ p2p_text = <<>>
    /\ p2p_parsed = NoAddr

AddrNext ==
    \/ Serialize
    \/ Parse

AddrSpec == AddrInit /\ [][AddrNext]_vars

\* A state directory in which nothing was allocated yet, and processes that
\* are about to call allocate.
PortInit ==
    /\ NetworkAtRest
    /\ OneNetwork
    /\ NoAddrs
    /\ state_path = 0
    /\ tmp_state_path = 0
    /\ files = <<>>
    /\ flock = <<>>
    /\ procs = [p \in Processes |-> NoAllocation]
    /\ allocated = <<>>

PortNext ==
    \/ \E p \in Processes : Open(p)
    \/ \E p \in Processes : Flock(p)
    \/ \E p \in Processes : Read(p)
    \/ \E p \in Processes : WriteTmp(p)
    \/ \E p \in Processes : Rename(p)
    \/ \E p \in Processes : Unlock(p)

PortSpec == PortInit /\ [][PortNext]_vars

\* Networks constructed without secondary_lnd_host, and load_scenario called
\* on any of them.
RegistryInit ==
    /\ NetworkInit
    /\ secondary_node = NoNode

RegistryNext ==
    \/ NewNetwork
    \/ LoadScenario
    \/ ScenarioNode
    \/ PrepareBlocks
    \/ NodeSyncs
    \/ ScenarioJoin
    \/ ScenarioEdge
    \/ PrepareChainCoins
    \/ FundMine
    \/ SendCoins
    \/ ConfirmCoins
    \/ ResolveDest
    \/ OpenChannel
    \/ ConfirmChannel
    \/ ScenarioPolicy

RegistrySpec == RegistryInit /\ [][RegistryNext]_vars

\* ------------------------------------------------------------------ claims

Last(seq) == seq[Len(seq)]

\* This step is a call of `op` on the Network.
CallStep(op) == Len(calls') = Len(calls) + 1 /\ Last(calls').op = op

\* start_auto_mining has succeeded and stop_auto_mining has not been called
\* since.
StartedNotStopped ==
    \E i \in 1..Len(calls) :
        /\ calls[i].op = "start_auto_mining"
        /\ calls[i].result = "ok"
        /\ \A j \in (i + 1)..Len(calls) : calls[j].op # "stop_auto_mining"

\* C1: after start_auto_mining() has succeeded and while stop_auto_mining()
\* has not been called, the background worker runs (so that a non-empty
\* mempool gets confirm_tx_block_count blocks mined): the Thread held in
\* _auto_miner_thread has been started.
C1_WorkerRunsWhileStarted ==
    StartedNotStopped => threads[auto_miner_thread] = "started"

\* C2: after a successful start_auto_mining(), stop_auto_mining() returns
\* normally and leaves the running flag false and the worker handle empty,
\* and a start_auto_mining() that follows it is not refused as already
\* running.
C2_StopReturnsAndRestartWorks ==
    [][ /\ (CallStep("stop_auto_mining") /\ StartedNotStopped)
            => /\ Last(calls').result = "ok"
               /\ ~auto_miner_running'
               /\ auto_miner_thread' = None
        /\ (/\ CallStep("start_auto_mining")
            /\ calls # <<>>
            /\ Last(calls).op = "stop_auto_mining"
            /\ Last(calls).result # "NotRunning")
            => Last(calls').result # "AlreadyRunning"
      ]_vars

\* C4: start_auto_mining() called while the auto-miner is running raises an
\* error and changes no auto-miner state, and in every state at most one
\* worker Thread exists.
C4_StartWhileRunningFails ==
    [][ /\ (CallStep("start_auto_mining") /\ auto_miner_running)
            => /\ Last(calls').result # "ok"
               /\ UNCHANGED <<amVars, threads>>
        /\ Cardinality(Workers') <= 1
      ]_vars

C4_Witness ==
    /\ calls # <<>>
    /\ Last(calls).op = "start_auto_mining"
    /\ Last(calls).result = "AlreadyRunning"
    /\ auto_miner_running
    /\ Cardinality(Workers) = 1

\* C5: stop_auto_mining() called when the auto-miner is not running (never
\* started, or stopped before) raises an error and leaves the running flag,
\* the worker handle, the interval and the block count unchanged.
C5_StopWhenNotRunningFails ==
    [][ (CallStep("stop_auto_mining") /\ ~auto_miner_running)
            => /\ Last(calls').result # "ok"
               /\ UNCHANGED amVars
      ]_vars

C5_Witness ==
    /\ Len(calls) = 3
    /\ calls[1].op = "start_auto_mining" /\ calls[1].result = "ok"
    /\ calls[2].op = "stop_auto_mining"
    /\ calls[3].op = "stop_auto_mining" /\ calls[3].result # "ok"
    /\ ~auto_miner_running

\* C6: after start_auto_mining(p, c) has succeeded, the worker's polling
\* interval is p and the blocks it mines per cycle are c.
C6_IntervalAndCountAsGiven ==
    (/\ calls # <<>>
     /\ Last(calls).op = "start_auto_mining"
     /\ Last(calls).result = "ok")
        => /\ auto_miner_polling_interval = Last(calls).args[1]
           /\ auto_miner_confirm_tx_block_count = Last(calls).args[2]

\* C7: a _prepare_channel(source, dest, amount_sat) entered with
\* get_spendable_sat(dest) >= amount_sat returns at once and changes nothing
\* on the chain (no wallet, block or payment) and no channel.
C7_LiquidCallMutatesNothing ==
    [][ (/\ CallStep("_prepare_channel")
         /\ get_spendable_sat(Last(calls').args[1], Last(calls').args[2])
                >= Last(calls').args[3])
            => /\ Last(calls').result = "ok"
               /\ pc' = "idle"
               /\ UNCHANGED <<chainVars, channels>>
      ]_vars

\* Two identical calls in a row, the first of which opened the one channel
\* there is and the second of which changed nothing.
C7_Witness ==
    /\ Len(calls) = 2
    /\ pc = "idle"
    /\ calls[1].args = calls[2].args
    /\ calls[1].result = "ok" /\ calls[2].result = "ok"
    /\ Len(channels[source]) = 1
    /\ Len(sent) = 1

\* C8: whenever _prepare_channel returns normally, the last spendable
\* balance it read was at least amount_sat.
C8_ReturnsOnlyWhenLiquid ==
    (/\ pc = "idle"
     /\ calls # <<>>
     /\ Last(calls).op = "_prepare_channel"
     /\ Last(calls).result = "ok")
        => last_spendable >= Last(calls).args[3]

\* A return by way of the polling loop: the call opened a channel.
C8_Witness ==
    /\ Len(calls) = 1
    /\ pc = "idle"
    /\ calls[1].op = "_prepare_channel" /\ calls[1].result = "ok"
    /\ Len(channels[source]) = 1
    /\ amount_sat > 0

\* C9: the capacity _prepare_channel asks _open_channel for is 2 * amount_sat
\* clamped to 20000 .. 2^24 - 1.
C9_CapacityIsClamped ==
    pc # "idle" =>
        /\ open_amount_sat >= 20000
        /\ open_amount_sat <= 16777215
        /\ (2 * amount_sat < 20000 => open_amount_sat = 20000)
        /\ (2 * amount_sat > 16777215 => open_amount_sat = 16777215)
        /\ (2 * amount_sat >= 20000 /\ 2 * amount_sat <= 16777215
                => open_amount_sat = 2 * amount_sat)

C9_Witness ==
    /\ pc = "open"
    /\ amount_sat = 8388608
    /\ open_amount_sat = 16777215

\* C10: the amount _open_channel has sent to the source node's address
\* denotes the channel capacity plus 100000 satoshis.
C10_SendsCapacityPlusBuffer ==
    pc \in {"sent", "resolve", "open", "confirm", "poll"}
        => decimal_sats(Decimal(Last(sent).amount)) = open_amount_sat + 100000

\* ---- auto_pay

\* This step is a pay_invoice call on a node.
PayStep == Len(paid') = Len(paid) + 1

\* C11: when the secondary node's pay_invoice is called for a
\* LightningPayment, the primary node has parsed the invoice, the secondary
\* node exists and its wait_init has returned, the liquidity engine was
\* called for the secondary node and the invoice's destination with the least
\* n such that 1000 * n >= amount_msat, and the last spendable balance it
\* read was at least n.
C11_PayAfterParseInitAndLiquidity ==
    [][ PayStep =>
          /\ invoice.parsed
          /\ parse_invoice(invoice.text).ok
          /\ Last(paid') = [node |-> secondary_node, invoice |-> invoice.text]
          /\ secondary_node # NoNode
          /\ secondary_node \in initialized
          /\ source = secondary_node
          /\ dest = parse_invoice(invoice.text).dest
          /\ 1000 * amount_sat >= parse_invoice(invoice.text).amount_msat
          /\ 1000 * (amount_sat - 1) < parse_invoice(invoice.text).amount_msat
          /\ last_spendable >= amount_sat
      ]_vars

\* An invoice of 1500 millisatoshis was paid by a secondary node this call
\* spawned, through a channel this call opened.
C11_Witness ==
    /\ Len(paid) = 1
    /\ pc = "idle"
    /\ Last(calls).result = "ok"
    /\ invoice.amount_msat = 1500
    /\ amount_sat = 2
    /\ Len(launched) = 1
    /\ Len(channels[secondary_node]) = 1

\* This step is a sendtoaddress call.
SendStep == Len(sent') = Len(sent) + 1

\* C12: a ChainPayment's sendtoaddress is called with the address and the
\* amount of the payment (those of the link, for a payment made from a link),
\* only in a state where the balance is at least amount * 10^8 + 100000
\* satoshis; until then the balance changes only with batches of 101 blocks;
\* after the send come 6 blocks, unless the daemon fails.
C12_ChainPaymentSteps ==
    [][ /\ SendStep =>
            /\ payment.kind = "ChainPayment"
            /\ Last(sent') = [address |-> payment.address, amount |-> payment.amount]
            /\ balance >= decimal_sats(Decimal(payment.amount)) + 100000
            /\ calls[Innermost].op = "auto_pay" =>
                    /\ payment.address = parse_link(link).address
                    /\ payment.amount = parse_link(link).amount
            /\ pc' = "sent"
        /\ (pc \in {"coins", "fund"} /\ ~SendStep) =>
            /\ height' \in {height, height + 101}
            /\ balance' # balance => height' = height + 101
        /\ (pc = "sent" /\ pc' # "sent") =>
            \/ height' = height + 6
            \/ height' = height /\ pc' = "idle" /\ Last(calls').result = "RpcError"
      ]_vars

\* The payment of 0.390625 BTC of a link was sent after three batches, two of
\* which brought coins in, and confirmed.
C12_Witness ==
    /\ pc = "idle"
    /\ Len(calls) = 1
    /\ calls[1].op = "auto_pay" /\ calls[1].result = "ok"
    /\ Len(sent) = 1
    /\ sent[1].amount = <<"0", ".", "3", "9", "0", "6", "2", "5">>
    /\ height = 309
    /\ balance = 39062500 - SendFee

\* ---- the secondary node

\* The _spawn_secondary_node calls made so far.
SpawnCount ==
    Cardinality({i \in 1..Len(launched) : launched[i].by = "_spawn_secondary_node"})

Parsed == payment # NoPayment

\* The text of `link` after its first n characters.
After(n) == slice(link, n, Len(link))

\* The parameters of a query string.
ParamsOf(query) == split(query, <<"&">>)

\* The indices of the parameters whose key is `amount`.
AmountParams(ps) == {k \in 1..Len(ps) : startswith(ps[k], s_amount_eq)}

\* C14: for a link of scheme `lightning:`, the remainder after the scheme is
\* classified as a bare invoice is: a remainder starting with `lnbcrt` gives
\* LightningPayment(remainder), a remainder with another `ln` prefix is
\* rejected, and so is any other remainder.
C14_LightningSchemeAsBareInvoice ==
    (Parsed /\ startswith(link, s_lightning \o <<":">>)) =>
        LET remainder == After(Len(s_lightning) + 1) IN
        IF startswith(remainder, s_lnbcrt)
        THEN payment = LightningPayment(remainder)
        ELSE payment.kind = "InvalidPaymentLink"

\* C15: for a link bitcoin:ADDR?PARAMS with one `?`, where PARAMS has a
\* parameter amount=X (first or later, other parameters before or after),
\* _parse_link gives ChainPayment(ADDR, X), X being the text from after
\* `amount=` to the next `&` or the end.
C15_AmountFirstOrLater ==
    (Parsed /\ startswith(link, s_bitcoin \o <<":">>)) =>
        LET parts == split(After(Len(s_bitcoin) + 1), <<"?">>) IN
        Len(parts) = 2 =>
            LET ps == ParamsOf(parts[2])
                first == CHOOSE k \in AmountParams(ps) :
                            \A j \in AmountParams(ps) : k <= j
            IN  AmountParams(ps) # {} =>
                    payment = ChainPayment(parts[1],
                                slice(ps[first], Len(s_amount_eq), Len(ps[first])))

\* An amount parameter that is not the first one, with a value, gave a
\* ChainPayment.
C15_Witness ==
    /\ link = s_bitcoin \o <<":", "b", "c", "r", "t", "1", "q", "?", "x", "=", "1", "&">>
                \o s_amount_eq \o <<"0", ".", "5">>
    /\ payment.kind = "ChainPayment"
    /\ payment.amount = <<"0", ".", "5">>

\* C16: a link without `:` fails with InvalidPaymentLink when it starts with
\* `1`, `3` or `bc1`, gives LightningPayment(link) when it starts with
\* `lnbcrt`, fails for any other `ln` prefix and fails for everything else.
C16_BareLinkClassified ==
    (Parsed /\ find(link, <<":">>, 0) < 0) =>
        IF \/ startswith(link, <<"1">>)
           \/ startswith(link, <<"3">>)
           \/ startswith(link, s_bc1)
        THEN payment.kind = "InvalidPaymentLink"
        ELSE IF startswith(link, s_lnbcrt)
        THEN payment = LightningPayment(link)
        ELSE payment.kind = "InvalidPaymentLink"

\* A regtest invoice was accepted.
C16_Witness ==
    /\ link = s_lnbcrt \o <<"1", "a">>
    /\ payment.kind = "LightningPayment"
    /\ payment.invoice = link

\* C17: _parse_link gives a ChainPayment, a LightningPayment or
\* InvalidPaymentLink, nothing else; a `bitcoin:` link with no `?`, with more
\* than one `?` or with no amount parameter fails, and a scheme other than
\* `bitcoin` and `lightning` fails as unknown schema.
C17_ParsingTotalAndTyped ==
    Parsed =>
        LET colon == find(link, <<":">>, 0)
            schema == slice(link, 0, colon)
            parts == split(After(colon + 1), <<"?">>)
        IN  /\ payment.kind \in {"ChainPayment", "LightningPayment",
                                  "InvalidPaymentLink"}
            /\ (/\ colon >= 0
                /\ schema = s_bitcoin
                /\ \/ Len(parts) # 2
                   \/ AmountParams(ParamsOf(parts[2])) = {})
                    => payment.kind = "InvalidPaymentLink"
            /\ (colon >= 0 /\ schema \notin {s_bitcoin, s_lightning})
                    => /\ payment.kind = "InvalidPaymentLink"
                       /\ payment.error = "Unknown schema"

\* A link with a second `?` after a good amount parameter was refused.
C17_Witness ==
    /\ link = s_bitcoin \o <<":", "b", "c", "r", "t", "1", "q", "?">>
                \o s_amount_eq \o <<"1", "?", "x">>
    /\ payment.kind = "InvalidPaymentLink"

\* ---- mine_blocks

\* C18: mine_blocks(count) with count < 1 raises before any call to the
\* chain-control daemon (no wallet created, no block generated, nothing
\* else changed there); mine_blocks(1) is not refused and, when the daemon
\* answers, returns with the chain height advanced by exactly 1.
C18_MineBlocksCountChecked ==
    [][ CallStep("mine_blocks") =>
          LET count == Last(calls').args[1] IN
          /\ count < 1 => /\ Last(calls').result = "Exception"
                          /\ UNCHANGED chainVars
          /\ count = 1 => /\ Last(calls').result \in {"ok", "RpcError"}
                          /\ Last(calls').result = "ok" => height' = height + 1
      ]_vars

\* mine_blocks(0) was refused with no wallet created, then mine_blocks(1)
\* mined the first block.
C18_Witness ==
    /\ Len(calls) = 2
    /\ calls[1] = Call("mine_blocks", <<0>>, "Exception")
    /\ calls[2] = Call("mine_blocks", <<1>>, "ok")
    /\ height = 1
    /\ wallets = 1

\* ---- load_scenario

\* The node declaration is one load_scenario accepts.
ValidDecl(n) == fullmatch(n.name) /\ n.type = "lnd"

\* C19: a load_scenario of a scenario that declares a node with an invalid
\* name or an unsupported type, wherever in the file, fails and has no side
\* effect: no node is created or launched and nothing changes on the chain.
C19_InvalidNodeNoSideEffect ==
    [][ (/\ calls' # <<>>
         /\ Last(calls').op = "load_scenario"
         /\ \E i \in 1..Len(scenario'.nodes) : ~ValidDecl(scenario'.nodes[i]))
            => /\ Last(calls').result # "ok"
               /\ UNCHANGED <<launched, chainVars>>
      ]_vars

\* load_scenario has returned normally.
ScenarioLoaded ==
    /\ pc = "idle"
    /\ calls # <<>>
    /\ Last(calls).op = "load_scenario"
    /\ Last(calls).result = "ok"

\* C20: after load_scenario has returned normally, every declared node is
\* registered by its name and by its pubkey, the two entries are the same
\* node object, and for every declared channel the initiator has a channel
\* to the receiver with the declared capacity.
C20_ScenarioRegisteredAndOpened ==
    ScenarioLoaded =>
        /\ \A i \in 1..Len(scenario.nodes) :
              LET name == scenario.nodes[i].name IN
              /\ name \in DOMAIN ln_nodes_by_name
              /\ Pubkey(name) \in DOMAIN ln_nodes_by_pubkey
              /\ ln_nodes_by_name[name] = ln_nodes_by_pubkey[Pubkey(name)]
              /\ ln_nodes_by_name[name].node = name
        /\ \A i \in 1..Len(scenario.channels) :
              LET edge == scenario.channels[i]
                  node(name) == IF name = "$system" THEN "main" ELSE name
                  chans == channels[node(edge.initiator)]
              IN  \E j \in 1..Len(chans) :
                    /\ chans[j].remote_pubkey = Pubkey(node(edge.receiver))
                    /\ chans[j].capacity = edge.capacity_sats

\* alice and bob are registered and alice has her channel of 1000000
\* satoshis to bob.
C20_Witness ==
    /\ ScenarioLoaded
    /\ Len(scenario.nodes) = 2
    /\ Len(scenario.channels) = 1
    /\ scenario.channels[1].initiator = "alice"
    /\ Len(channels["alice"]) = 1
    /\ DOMAIN ln_nodes_by_name = {"alice", "bob"}

\* ---- load_scenario: channel policies

\* This step is the pair of update_channel_policy calls of one channel.
PolicyStep == Len(policies') = Len(policies) + 2

\* The node a name of the channels table stands for.
NodeNamed(name) == IF name = "$system" THEN "main" ELSE name

PolicyFields == {"fee_base_msat", "fee_proportional_millionths", "time_lock_delta"}
PolicyDefaults ==
    [fee_base_msat |-> 1000, fee_proportional_millionths |-> 100,
     time_lock_delta |-> 144]

\* The key of each field in the example of the docstring.
DocumentedKeys ==
    [fwd |-> [fee_base_msat |-> "fwd_fee_base_msats",
              fee_proportional_millionths |-> "fwd_fee_proportional_millionths",
              time_lock_delta |-> "fwd_timelock_delta"],
     rev |-> [fee_base_msat |-> "rev_fee_base_msats",
              fee_proportional_millionths |-> "rev_fee_proportional_millionths",
              time_lock_delta |-> "rev_timelock_delta"]]

\* Every spelling of the key of each field: the documented one and the one
\* with the names of the update_channel_policy parameters.
FieldKeys ==
    [fwd |-> [fee_base_msat |-> {"fwd_fee_base_msats", "fwd_fee_base_msat"},
              fee_proportional_millionths |-> {"fwd_fee_proportional_millionths"},
              time_lock_delta |-> {"fwd_timelock_delta", "fwd_time_lock_delta"}],
     rev |-> [fee_base_msat |-> {"rev_fee_base_msats", "rev_fee_base_msat"},
              fee_proportional_millionths |-> {"rev_fee_proportional_millionths"},
              time_lock_delta |-> {"rev_timelock_delta", "rev_time_lock_delta"}]]

\* The field is declared under no spelling of its key.
Omitted(options, direction, field) ==
    FieldKeys[direction][field] \cap DOMAIN options = {}

\* C21: for every declared channel, update_channel_policy is called on the
\* initiator and then on the receiver, both with the channel the open of this
\* channel returned (the initiator's newest channel, to the receiver, of the
\* declared capacity); every omitted field has its default: push 0, private
\* false, fee base 1000, proportional fee 100, timelock delta 144, the
\* reverse direction independently of the forward one.
C21_PoliciesOnOpenedChannel ==
    [][ PolicyStep =>
          LET edge == scenario.channels[idx]
              initiator == NodeNamed(edge.initiator)
              receiver == NodeNamed(edge.receiver)
              k == Len(channels[initiator])
              opened == channels[initiator][k]
              fwd == policies'[Len(policies) + 1]
              rev == policies'[Len(policies) + 2]
          IN  /\ calls[Innermost].op = "load_scenario"
              /\ fwd.node = initiator /\ rev.node = receiver
              /\ fwd.channel = <<initiator, k>> /\ rev.channel = fwd.channel
              /\ k > 0
              /\ opened.remote_pubkey = Pubkey(receiver)
              /\ opened.capacity = edge.capacity_sats
              /\ "push_sats" \notin DOMAIN edge.options
                    => opened.local_balance = opened.capacity
              /\ "private" \notin DOMAIN edge.options => ~opened.private
              /\ \A f \in PolicyFields :
                    /\ Omitted(edge.options, "fwd", f) => fwd[f] = PolicyDefaults[f]
                    /\ Omitted(edge.options, "rev", f) => rev[f] = PolicyDefaults[f]
      ]_vars

\* A channel declared with forward fields only was opened and given the
\* declared forward policy and the default reverse policy.
C21_Witness ==
    /\ ScenarioLoaded
    /\ Len(scenario.channels) = 1
    /\ DOMAIN scenario.channels[1].options = DOMAIN ForwardOptions
    /\ Len(policies) = 2
    /\ policies[1].fee_base_msat = 100
    /\ policies[1].time_lock_delta = 40
    /\ policies[2].fee_base_msat = 1000
    /\ policies[2].time_lock_delta = 144
    /\ channels["alice"][1].private

\* C22: the fee-policy fields a channel declares under the key names of the
\* docstring example are the values update_channel_policy is called with.
C22_DocumentedKeysUsed ==
    [][ PolicyStep =>
          LET options == scenario.channels[idx].options
              fwd == policies'[Len(policies) + 1]
              rev == policies'[Len(policies) + 2]
          IN  \A f \in PolicyFields :
                /\ DocumentedKeys.fwd[f] \in DOMAIN options
                      => fwd[f] = options[DocumentedKeys.fwd[f]]
                /\ DocumentedKeys.rev[f] \in DOMAIN options
                      => rev[f] = options[DocumentedKeys.rev[f]]
      ]_vars

\* ---- load_scenario: the secondary node

SECONDARY_NODE_ID == "1"

\* C23: after load_scenario has returned normally for a scenario that
\* declares nodes, the secondary node is the first declared node (it was not
\* spawned before), or else it is the one spawned before and the registry of
\* named nodes has it under the name "1".
C23_TopmostBecomesSecondary ==
    (ScenarioLoaded /\ scenario.nodes # <<>>) =>
        \/ secondary_node = scenario.nodes[1].name
        \/ /\ secondary_node # NoNode
           /\ SECONDARY_NODE_ID \in DOMAIN ln_nodes_by_name
           /\ ln_nodes_by_name[SECONDARY_NODE_ID].node = secondary_node

\* ---- LndRest.open_channel

\* C26: an open_channel call that _open_channel makes on an LndRest node
\* with (peer, capacity_sat, push_sat, private) is accepted: the channel is
\* requested with the push amount and the private flag, and _open_channel
\* goes on to confirm it.
C26_LndRestHonoursOpenChannel ==
    [][ (pc = "open" /\ pc' # "open" /\ impl = "LndRest") =>
          /\ pc' = "confirm"
          /\ Len(channels'[source]) = Len(channels[source]) + 1
          /\ LET opened == Last(channels'[source]) IN
             /\ opened.remote_pubkey = dest
             /\ opened.capacity = open_amount_sat
             /\ opened.local_balance = open_amount_sat - open_channel_args.push_sat
             /\ opened.private = open_channel_args.private
      ]_vars

\* ---- warm_up

\* warm_up(blocks, secondary_ln_node = False, channels = True) is in progress.
ChannelsWithoutSecondary ==
    /\ Running # {}
    /\ calls[Innermost].op = "warm_up"
    /\ ~calls[Innermost].args[2]
    /\ calls[Innermost].args[3]

\* C27: warm_up(channels = True, secondary_ln_node = False) ends with an
\* error, and no step of it spawns a secondary node, opens a channel or
\* changes anything on the chain, whatever `blocks` is.
C27_ChannelsWithoutSecondaryMutatesNothing ==
    [][ ChannelsWithoutSecondary =>
          /\ UNCHANGED <<chainVars, secondary_node, launched>>
          /\ \A n \in Nodes : Len(channels'[n]) = Len(channels[n])
          /\ pc' = "idle" => Last(calls').result = "Exception"
      ]_vars

\* ---- load_scenario: the order of its passes

\* load_scenario is in progress.
InScenario == Running # {} /\ calls[Innermost].op = "load_scenario"

\* The names the scenario declares, and those load_scenario has launched.
Declared == {scenario.nodes[i].name : i \in 1..Len(scenario.nodes)}
LaunchedByScenario ==
    {launched[i].node : i \in {j \in 1..Len(launched) : launched[j].by = "load_scenario"}}

\* The steps of _open_channel, and the steps of load_scenario around them.
OpenChannelSteps == {"coins", "fund", "sent", "resolve", "open", "confirm"}

\* C28: while load_scenario waits for a node (wait_init), every declared
\* node has been launched and the chain has at least 101 blocks; while it
\* opens channels and sets policies, every declared node is registered by
\* name and by pubkey.
C28_ScenarioPassesInOrder ==
    InScenario =>
        /\ pc = "scenario_join" =>
              /\ Declared \subseteq LaunchedByScenario
              /\ height >= 101
        /\ pc \in OpenChannelSteps \cup {"scenario_edges", "scenario_policy"} =>
              /\ Declared \subseteq DOMAIN ln_nodes_by_name
              /\ {Pubkey(name) : name \in Declared} \subseteq DOMAIN ln_nodes_by_pubkey
              /\ Declared \subseteq initialized

\* Two nodes were launched, 101 blocks mined, the first node awaited and
\* registered, and the second one is being awaited.
C28_Witness ==
    /\ InScenario
    /\ pc = "scenario_join"
    /\ idx = 2
    /\ Len(launched) = 2
    /\ height = 101
    /\ DOMAIN ln_nodes_by_name = {scenario.nodes[1].name}

\* ---- _open_channel

\* _open_channel is in progress (the steps of a ChainPayment made from a link
\* are not part of one).
InOpenChannel ==
    /\ pc \in OpenChannelSteps
    /\ calls[Innermost].op # "auto_pay"

\* The order of the steps of _open_channel.
OpenChannelOrder ==
    {<<"coins", "fund">>, <<"fund", "sent">>, <<"sent", "resolve">>,
     <<"resolve", "open">>, <<"open", "confirm">>}

\* The node an identity resolves to: the primary node, else the secondary
\* node if there is one, else the registry by pubkey.
Resolved(node_id) ==
    IF node_id = Pubkey("main") THEN "main"
    ELSE IF secondary_node # NoNode /\ node_id = Pubkey(secondary_node)
    THEN secondary_node
    ELSE IF node_id \in DOMAIN ln_nodes_by_pubkey
    THEN ln_nodes_by_pubkey[node_id].node
    ELSE NoNode

\* C29: _open_channel goes through fund, resolve, open, mine 6 blocks in
\* this order or ends with an error; the funding payment is sent before the
\* destination is resolved; the destination resolves to the primary node,
\* else to the secondary node, else through the registry; an identity found
\* nowhere ends _open_channel with an error and no channel is requested for
\* it; a channel is requested only in the open step, and after it 6 blocks
\* are mined unless the daemon fails.
C29_OpenChannelOrderAndResolution ==
    [][ /\ (InOpenChannel /\ pc' # pc) =>
              \/ <<pc, pc'>> \in OpenChannelOrder
              \/ pc' = "idle" /\ Last(calls').result # "ok"
              \/ pc = "confirm" /\ height' = height + 6
        /\ (InOpenChannel /\ SendStep) => pc = "fund"
        /\ (InOpenChannel /\ pc = "resolve") =>
              /\ sent # <<>>
              /\ Last(sent).address = get_chain_address(source)
              /\ get_ln_p2p_address_by_id(dest) =
                    (IF Resolved(dest) = NoNode THEN "KeyError" ELSE Resolved(dest))
              /\ (Resolved(dest) = NoNode /\ pc' # pc) =>
                    /\ pc' = "idle"
                    /\ calls'[Innermost].result = "KeyError"
                    /\ UNCHANGED <<channels, chainVars>>
        /\ (\E n \in Nodes : Len(channels'[n]) > Len(channels[n])) =>
              /\ InOpenChannel /\ pc = "open" /\ pc' = "confirm"
              /\ Resolved(dest) # NoNode
        /\ (InOpenChannel /\ pc = "confirm" /\ pc' # pc) =>
              \/ height' = height + 6
              \/ height' = height /\ pc' = "idle" /\ Last(calls').result = "RpcError"
      ]_vars

\* An invoice to an identity no node has: the secondary node was funded, the
\* identity was not found, the call ended with KeyError and no channel was
\* requested.
C29_Witness ==
    /\ pc = "idle"
    /\ calls # <<>>
    /\ Last(calls).op = "_prepare_channel"
    /\ Last(calls).result = "KeyError"
    /\ dest = "pk_other"
    /\ Len(sent) = 1
    /\ \A n \in Nodes : channels[n] = <<>>

\* ---- P2PAddr

\* C24: for every constructed address a, P2PAddr.parse(a.serialize()) gives
\* an address with the pubkey, the host and the port of a, and the text is
\* pubkey@host:port.
C24_AddrRoundTrip ==
    /\ p2p_text # <<>> =>
          p2p_text = p2p_addr.pubkey \o <<"@">> \o p2p_addr.host \o <<":">>
                        \o str_int(p2p_addr.port)
    /\ p2p_parsed # NoAddr =>
          /\ p2p_parsed.ok
          /\ p2p_parsed.pubkey = p2p_addr.pubkey
          /\ p2p_parsed.host = p2p_addr.host
          /\ p2p_parsed.port = p2p_addr.port

\* ---- port allocation

\* The ranges allocate has returned.
Returned == {i \in 1..Len(allocated) : allocated[i].result = "ok"}

\* The number the file `ports` holds (60000 before the first allocation).
Counter ==
    IF state_path = 0 \/ files[state_path] = <<>> THEN 60000
    ELSE int_str(files[state_path]).value

\* C25: the ranges returned by allocate are pairwise disjoint, each has
\* exactly `count` ports, the first one starts at 60000, and the number
\* persisted never decreases.
C25_PortsDisjointAndMonotonic ==
    [][ /\ \A i \in Returned' :
              /\ allocated'[i].stop - allocated'[i].first = allocated'[i].count
              /\ \A j \in Returned' \ {i} :
                    \/ allocated'[i].stop <= allocated'[j].first
                    \/ allocated'[j].stop <= allocated'[i].first
        /\ allocated' # <<>> => allocated'[1].first = 60000
        /\ Counter' >= Counter
      ]_vars

\* ---- _prepare_channel: the end of the polling loop

\* The channel the _prepare_channel call in progress has opened: the last
\* channel of the source node.
OpenedChannel == Last(channels[source])

\* The channel the call in progress opened is active and all of the capacity
\* asked for is spendable in it.
OpenedChannelLiquid ==
    /\ channels[source] # <<>>
    /\ OpenedChannel.remote_pubkey = dest
    /\ OpenedChannel.capacity = open_amount_sat
    /\ OpenedChannel.active
    /\ OpenedChannel.local_balance - OpenedChannel.local_chan_reserve_sat
            = open_amount_sat

\* C31: the polling loop of _prepare_channel ends once the channel it opened
\* is active with the requested capacity spendable, whatever amount_sat is:
\* in such a state the loop's test get_spendable_sat(dest) < amount_sat is
\* false, so the next poll returns.
C31_PollEndsOnceChannelLiquid ==
    (pc = "poll" /\ OpenedChannelLiquid)
        => get_spendable_sat(source, dest) >= amount_sat

\* ---- _parse_link: the fields of a ChainPayment

\* C33: a ChainPayment that _parse_link returns has a non-empty address and
\* a non-empty amount (a link that lacks either is an InvalidPaymentLink).
C33_ChainPaymentFieldsNonEmpty ==
    payment.kind = "ChainPayment"
        => /\ payment.address # <<>>
           /\ payment.amount # <<>>

\* ---- the node registry

\* The Network object the load_scenario call in progress was made on.
ScenarioSelf == calls[Innermost].args[1]

\* C32: while load_scenario runs on one Network object, the by-name and
\* by-identity maps of that object keep every entry they have, and the maps
\* of every other Network object stay as they are.
C32_RegistryOwnedAndGrowing ==
    [][ InScenario =>
          \A self \in {ScenarioSelf} :
            /\ \A k \in DOMAIN ln_nodes_by_name_of(self) :
                  k \in DOMAIN ln_nodes_by_name_of(self)'
            /\ \A k \in DOMAIN ln_nodes_by_pubkey_of(self) :
                  k \in DOMAIN ln_nodes_by_pubkey_of(self)'
            /\ \A other \in (1..networks) \ {self} :
                  /\ ln_nodes_by_name_of(other)' = ln_nodes_by_name_of(other)
                  /\ ln_nodes_by_pubkey_of(other)' = ln_nodes_by_pubkey_of(other)
      ]_vars

====
